---------------------------- MODULE Spec2Model ----------------------------
(***************************************************************************)
(* Model of the review dashboard in src/main.py: the status classifier     *)
(* (determine_status, calculate_novel_status), the memoized aggregate      *)
(* (get_processed_novel_data and the st.cache_data loaders), the           *)
(* session-local overlay (local_rating_patches, apply_local_patches) and   *)
(* the write path (on_rating_button_click, save_rating,                    *)
(* save_comment_only).                                                     *)
(*                                                                         *)
(* Encoding of Python values.  A pandas DataFrame is a sequence of         *)
(* records (its rows, in row order).  Python None / NaN is the string      *)
(* None below.  The rating glyphs are not ASCII, so each is written as     *)
(* its code point: R_MARU is U+3007, the glyph the rating button submits   *)
(* and the first positive glyph the classifier lists; R_CIRCLE is U+25CB,  *)
(* the second positive glyph the classifier lists; R_TRI is U+25B3;        *)
(* R_BATSU is U+00D7.  updated_at is left out of the records: no           *)
(* modelled decision reads it.                                             *)
(***************************************************************************)
EXTENDS Naturals, Sequences, FiniteSets, TLC

\* ------------------------------------------------------------------ bounds
\* Largest number of rating records of the one submission that the
\* classifier specification draws as input.
MaxRecs == 4
\* Largest number of saves (rating clicks and comment edits, all sessions
\* together) in one behaviour of the session specification.
MaxWrites == 2
\* Largest number of cache entries whose time-to-live runs out in one
\* behaviour of the session specification.
MaxExpiries == 1

\* --------------------------------------------------------------- constants
None == "<None>"
R_MARU == "U+3007"
R_CIRCLE == "U+25CB"
R_TRI == "U+25B3"
R_BATSU == "U+00D7"
R_NG == "NG"
\* A non-empty rating outside the enumerated set (a malformed value).
R_BAD == "?"

RatingValues == {None, "", R_MARU, R_CIRCLE, R_TRI, R_BATSU, R_NG, R_BAD}

\* st.secrets["auth"]: the configured reviewers and the primary review body.
USER_LIST == {"a1", "a2", "g1", "g2"}
ADMIN_TEAM_USERS == {"a1", "a2"}
GENERAL_TEAM_USERS == {u \in USER_LIST : u \notin ADMIN_TEAM_USERS}
\* A reviewer with records in the rating table who is in neither list.
Outsiders == {"x1"}
Reviewers == USER_LIST \cup Outsiders

ROLE_ADMIN == "admin_team"
ROLE_GENERAL == "general"
RoleOf(user_name) == IF user_name \in ADMIN_TEAM_USERS THEN ROLE_ADMIN ELSE ROLE_GENERAL

\* load_master_data: one row per submission.
df_master == << [ncode |-> "n1"], [ncode |-> "n2"] >>
Ncodes == {df_master[i].ncode : i \in DOMAIN df_master}

\* ------------------------------------------------------- DataFrame helpers
RECURSIVE SetToSeq(_)
SetToSeq(S) ==
  IF S = {} THEN << >>
  ELSE LET x == CHOOSE y \in S : TRUE IN << x >> \o SetToSeq(S \ {x})

Reverse(s) == [i \in 1..Len(s) |-> s[Len(s) + 1 - i]]

\* df[df["ncode"] == ncode]
HasNcode(r, ncode) == r.ncode = ncode
RowsOfNcode(df, ncode) == SelectSeq(df, LAMBDA r : HasNcode(r, ncode))
\* df[df["user_name"] == user_name]
RowsOfUser(df, user_name) == SelectSeq(df, LAMBDA r : r.user_name = user_name)

\* rating.notna() & (rating != "")
IsValidRating(r) == r.rating # None /\ r.rating # ""
IsPositive(rating) == rating \in {R_MARU, R_CIRCLE, R_TRI}

\* ------------------------------------------------------- status classifier
\* Definitions are written as pipelines of small operators (each stage takes
\* the previous stage's value as a parameter), one stage per step of the code.
NoFlags ==
  [is_ng |-> FALSE, is_admin_evaluated |-> FALSE, is_admin_rejected |-> FALSE,
   is_general_evaluated |-> FALSE, is_general_rejected |-> FALSE,
   is_unclassified |-> FALSE]

FlagNames == DOMAIN NoFlags

\* any(flags.values())
AnyFlag(flags) == \E k \in FlagNames : flags[k]

AdminsRated(valid_ratings_df) ==
  SelectSeq(valid_ratings_df, LAMBDA r : r.user_name \in ADMIN_TEAM_USERS)
GeneralsRated(valid_ratings_df) ==
  SelectSeq(valid_ratings_df, LAMBDA r : r.user_name \in GENERAL_TEAM_USERS)

\* Mutant of GroupOutcome: a group is approved only if all of its rated
\* records are positive.
GroupOutcome_all_positive(flags, rated, evaluated, rejected) ==
  IF rated = << >> THEN flags
  ELSE IF \A i \in DOMAIN rated : IsPositive(rated[i].rating)
       THEN [flags EXCEPT ![evaluated] = TRUE]
       ELSE [flags EXCEPT ![rejected] = TRUE]

\* Mutant of GroupOutcome: a rated group also counts as rated for the other
\* group's flags (the flags of the group are set whatever group is named).
GroupOutcome_leaks(flags, rated, evaluated, rejected) ==
  IF rated = << >> THEN flags
  ELSE IF \E i \in DOMAIN rated : IsPositive(rated[i].rating)
       THEN [flags EXCEPT !.is_admin_evaluated = TRUE, !.is_general_evaluated = TRUE]
       ELSE [flags EXCEPT ![rejected] = TRUE]

\* Mutant of GroupOutcome: the first rated record of the group decides.
GroupOutcome_first_record(flags, rated, evaluated, rejected) ==
  IF rated = << >> THEN flags
  ELSE IF IsPositive(rated[1].rating)
       THEN [flags EXCEPT ![evaluated] = TRUE]
       ELSE [flags EXCEPT ![rejected] = TRUE]

\* The two group blocks of determine_status: if the group has rated records,
\* `evaluated` when any of them is positive, else `rejected`.
GroupOutcome(flags, rated, evaluated, rejected) ==
  IF rated = << >> THEN flags
  ELSE IF \E i \in DOMAIN rated : IsPositive(rated[i].rating)
       THEN [flags EXCEPT ![evaluated] = TRUE]
       ELSE [flags EXCEPT ![rejected] = TRUE]

\* if not any(flags.values()): flags["is_unclassified"] = True
DefaultUnclassified(flags) ==
  IF AnyFlag(flags) THEN flags ELSE [flags EXCEPT !.is_unclassified = TRUE]

\* Mutant of DetermineValid: the NG test comes after the group tests.
DetermineValid_ng_late(valid_ratings_df) ==
  IF valid_ratings_df = << >> THEN [NoFlags EXCEPT !.is_unclassified = TRUE]
  ELSE IF AdminsRated(valid_ratings_df) # << >> \/ GeneralsRated(valid_ratings_df) # << >>
  THEN GroupOutcome(
         GroupOutcome(NoFlags, AdminsRated(valid_ratings_df),
                      "is_admin_evaluated", "is_admin_rejected"),
         GeneralsRated(valid_ratings_df), "is_general_evaluated", "is_general_rejected")
  ELSE IF R_NG \in {valid_ratings_df[i].rating : i \in DOMAIN valid_ratings_df}
  THEN [NoFlags EXCEPT !.is_ng = TRUE]
  ELSE [NoFlags EXCEPT !.is_unclassified = TRUE]

\* Mutant of DetermineValid: a record set without a rated record is left
\* without any flag.
DetermineValid_no_default(valid_ratings_df) ==
  IF valid_ratings_df = << >> THEN NoFlags
  ELSE IF R_NG \in {valid_ratings_df[i].rating : i \in DOMAIN valid_ratings_df}
  THEN [NoFlags EXCEPT !.is_ng = TRUE]
  ELSE DefaultUnclassified(
         GroupOutcome(
           GroupOutcome(NoFlags, AdminsRated(valid_ratings_df),
                        "is_admin_evaluated", "is_admin_rejected"),
           GeneralsRated(valid_ratings_df), "is_general_evaluated", "is_general_rejected"))

\* determine_status after the filter to non-empty ratings.
DetermineValid(valid_ratings_df) ==
  IF valid_ratings_df = << >> THEN [NoFlags EXCEPT !.is_unclassified = TRUE]
  ELSE IF R_NG \in {valid_ratings_df[i].rating : i \in DOMAIN valid_ratings_df}
  THEN [NoFlags EXCEPT !.is_ng = TRUE]
  ELSE DefaultUnclassified(
         GroupOutcome(
           GroupOutcome(NoFlags, AdminsRated(valid_ratings_df),
                        "is_admin_evaluated", "is_admin_rejected"),
           GeneralsRated(valid_ratings_df), "is_general_evaluated", "is_general_rejected"))

\* determine_status(sub_df): the row-wise classifier.
determine_status(sub_df) == DetermineValid(SelectSeq(sub_df, IsValidRating))

\* The per-record columns of calculate_novel_status.
MarkRow(r) ==
  [ncode |-> r.ncode,
   is_ng_flag |-> r.rating = R_NG,
   admin_pos |-> r.user_name \in ADMIN_TEAM_USERS /\ IsPositive(r.rating),
   admin_neg |-> r.user_name \in ADMIN_TEAM_USERS /\ ~IsPositive(r.rating) /\ r.rating # R_NG,
   gen_pos |-> r.user_name \in GENERAL_TEAM_USERS /\ IsPositive(r.rating),
   gen_neg |-> r.user_name \in GENERAL_TEAM_USERS /\ ~IsPositive(r.rating) /\ r.rating # R_NG]

\* groupby("ncode")[col].any()
GroupAny(marked, ncode, col) ==
  \E i \in DOMAIN marked : marked[i].ncode = ncode /\ marked[i][col]

\* Mutant of ResultRow: an NG rating no longer clears the group flags.
ResultRow_no_ng_mask(marked, ncode) ==
  [ncode |-> ncode,
   is_ng |-> GroupAny(marked, ncode, "is_ng_flag"),
   is_admin_evaluated |-> GroupAny(marked, ncode, "admin_pos"),
   is_admin_rejected |->
     GroupAny(marked, ncode, "admin_neg") /\ ~GroupAny(marked, ncode, "admin_pos"),
   is_general_evaluated |-> GroupAny(marked, ncode, "gen_pos"),
   is_general_rejected |->
     GroupAny(marked, ncode, "gen_neg") /\ ~GroupAny(marked, ncode, "gen_pos")]

\* One row of the result of calculate_novel_status, the NG mask applied.
ResultRow(marked, ncode) ==
  [ncode |-> ncode,
   is_ng |-> GroupAny(marked, ncode, "is_ng_flag"),
   is_admin_evaluated |->
     ~GroupAny(marked, ncode, "is_ng_flag") /\ GroupAny(marked, ncode, "admin_pos"),
   is_admin_rejected |->
     ~GroupAny(marked, ncode, "is_ng_flag") /\ GroupAny(marked, ncode, "admin_neg")
     /\ ~GroupAny(marked, ncode, "admin_pos"),
   is_general_evaluated |->
     ~GroupAny(marked, ncode, "is_ng_flag") /\ GroupAny(marked, ncode, "gen_pos"),
   is_general_rejected |->
     ~GroupAny(marked, ncode, "is_ng_flag") /\ GroupAny(marked, ncode, "gen_neg")
     /\ ~GroupAny(marked, ncode, "gen_pos")]

ResultRows(marked, keys) == [k \in DOMAIN keys |-> ResultRow(marked, keys[k])]

GroupedResult(marked) ==
  ResultRows(marked, SetToSeq({marked[i].ncode : i \in DOMAIN marked}))

BatchValid(df_valid) ==
  IF df_valid = << >> THEN << >>
  ELSE GroupedResult([i \in DOMAIN df_valid |-> MarkRow(df_valid[i])])

\* calculate_novel_status(df_ratings): the batch classifier.  One result row
\* per ncode that has at least one non-empty rating.
calculate_novel_status(df_ratings) ==
  IF df_ratings = << >> THEN << >>
  ELSE BatchValid(SelectSeq(df_ratings, IsValidRating))

\* ----------------------------------------------------------- display string
DISP_NG == "NG"
DISP_ADMIN_POS == "Admin<U+3007><U+25B3>"
DISP_ADMIN_NEG == "Admin<U+00D7>"
DISP_GEN_POS == "Gen<U+3007><U+25B3>"
DISP_GEN_NEG == "Gen<U+00D7>"
DISP_NONE == "-"

\* Mutant of the display mapping: the General outcome is tested before the
\* Primary outcome.
get_disp_status_general_first(row) ==
  IF row.is_ng THEN DISP_NG
  ELSE IF row.is_general_evaluated THEN DISP_GEN_POS
  ELSE IF row.is_general_rejected THEN DISP_GEN_NEG
  ELSE IF row.is_admin_evaluated THEN DISP_ADMIN_POS
  ELSE IF row.is_admin_rejected THEN DISP_ADMIN_NEG
  ELSE DISP_NONE

\* get_disp_status(row), local to get_processed_novel_data.
get_disp_status(row) ==
  IF row.is_ng THEN DISP_NG
  ELSE IF row.is_admin_evaluated THEN DISP_ADMIN_POS
  ELSE IF row.is_admin_rejected THEN DISP_ADMIN_NEG
  ELSE IF row.is_general_evaluated THEN DISP_GEN_POS
  ELSE IF row.is_general_rejected THEN DISP_GEN_NEG
  ELSE DISP_NONE

\* get_disp_status_single(row), local to apply_local_patches.
get_disp_status_single(row) ==
  IF row.is_ng THEN DISP_NG
  ELSE IF row.is_admin_evaluated THEN DISP_ADMIN_POS
  ELSE IF row.is_admin_rejected THEN DISP_ADMIN_NEG
  ELSE IF row.is_general_evaluated THEN DISP_GEN_POS
  ELSE IF row.is_general_rejected THEN DISP_GEN_NEG
  ELSE DISP_NONE

\* ------------------------------------------------------- aggregate (build)
RECURSIVE Flatten(_)
Flatten(ss) == IF ss = << >> THEN << >> ELSE Head(ss) \o Flatten(Tail(ss))

\* Mutant of JoinRow: an inner join, a left row without a match is dropped.
JoinRow_inner(l, ms, missing) == [j \in DOMAIN ms |-> l @@ ms[j]]

\* The rows a left join gives for one left row.
JoinRow(l, ms, missing) ==
  IF ms = << >> THEN << l @@ missing >> ELSE [j \in DOMAIN ms |-> l @@ ms[j]]

\* pd.merge(left, right, on="ncode", how="left"): one output row per match
\* of a left row, or one row filled with `missing` when nothing matches.
MergeLeft(left, right, missing) ==
  Flatten([i \in DOMAIN left |-> JoinRow(left[i], RowsOfNcode(right, left[i].ncode), missing)])

EvaluatedNcodes(df_classification) ==
  {df_classification[i].ncode : i \in DOMAIN df_classification}

\* The merge of the catalog with the classification, fillna(False) and the
\* first is_unclassified defaulting (or the else branch: no classification
\* at all).
FirstDefault(df_classification) ==
  IF df_classification # << >>
  THEN MergeLeft(df_master, df_classification,
                 [is_ng |-> FALSE, is_admin_evaluated |-> FALSE,
                  is_admin_rejected |-> FALSE, is_general_evaluated |-> FALSE,
                  is_general_rejected |-> FALSE])
  ELSE [i \in DOMAIN df_master |-> df_master[i] @@ NoFlags]

\* The is_unclassified column after both defaulting steps.
Unclassify(row, df_classification) ==
  [is_unclassified |->
     IF df_classification # << >>
     THEN row.ncode \notin EvaluatedNcodes(df_classification)
     ELSE TRUE] @@ row

MyRatings(df_ratings) ==
  [i \in DOMAIN df_ratings |->
     [ncode |-> df_ratings[i].ncode,
      my_rating |-> df_ratings[i].rating,
      my_comment |-> df_ratings[i].comment]]

\* The left join with the caller's ratings (or the two None columns).
WithMyRatings(df, df_ratings) ==
  IF df_ratings # << >>
  THEN MergeLeft(df, MyRatings(df_ratings), [my_rating |-> None, my_comment |-> None])
  ELSE [i \in DOMAIN df |-> df[i] @@ [my_rating |-> None, my_comment |-> None]]

WithUnclassified(df, df_classification) ==
  [i \in DOMAIN df |-> Unclassify(df[i], df_classification)]

WithClassification(df) ==
  [i \in DOMAIN df |-> df[i] @@ [classification |-> get_disp_status(df[i])]]

BuildFrom(df_ratings, df_classification) ==
  WithClassification(
    WithUnclassified(
      WithMyRatings(FirstDefault(df_classification), df_ratings),
      df_classification))

\* get_processed_novel_data(user_name), as a function of what its three
\* loaders returned: load_master_data (df_master), load_user_ratings
\* (df_ratings) and load_all_ratings_table (df_all_ratings_raw).
get_processed_novel_data(user_name, df_ratings, df_all_ratings_raw) ==
  BuildFrom(df_ratings, calculate_novel_status(df_all_ratings_raw))

\* ------------------------------------------------------ optimistic overlay
\* The row the overlay builds from a pending write.
NewRow(ncode, user_name, patch) ==
  [ncode |-> ncode, user_name |-> user_name, rating |-> patch.rating,
   comment |-> patch.comment, role |-> patch.role]

ReplaceOrAppend(novel_ratings, user_name, new_row) ==
  IF \E i \in DOMAIN novel_ratings : novel_ratings[i].user_name = user_name
  THEN [i \in DOMAIN novel_ratings |->
          IF novel_ratings[i].user_name = user_name THEN new_row ELSE novel_ratings[i]]
  ELSE Append(novel_ratings, new_row)

\* Mutant of PatchedRatings: the pending write is not put in place of the
\* caller's record.
PatchedRatings_ignores_patch(df_all_ratings, ncode, user_name, patch) ==
  RowsOfNcode(df_all_ratings, ncode)

\* novel_ratings after the caller's record is replaced or appended.
PatchedRatings(df_all_ratings, ncode, user_name, patch) ==
  ReplaceOrAppend(RowsOfNcode(df_all_ratings, ncode), user_name,
                  NewRow(ncode, user_name, patch))

\* Mutant of SetFlags: the flags of the row are left as the build set them.
SetFlags_keeps_flags(row, flags) == row

\* df_patched.loc[idx, flag_name] = flag_val, for every flag
SetFlags(row, flags) == [k \in DOMAIN row |-> IF k \in FlagNames THEN flags[k] ELSE row[k]]
\* Mutant of SetClassification: the classification string of the row is left
\* as the build computed it.
SetClassification_keeps(row) == row

SetClassification(row) == [row EXCEPT !.classification = get_disp_status_single(row)]

\* Mutant of PatchRow: the classification string is derived before the new
\* flags are written.
PatchRow_classifies_first(row, patch, flags) ==
  SetFlags(
    SetClassification([row EXCEPT !.my_rating = patch.rating, !.my_comment = patch.comment]),
    flags)

\* What one iteration of the loop of apply_local_patches writes into the row
\* of its ncode.
PatchRow(row, patch, flags) ==
  SetClassification(
    SetFlags([row EXCEPT !.my_rating = patch.rating, !.my_comment = patch.comment], flags))

\* Mutant of PatchRows: the write goes to every row of the table.
PatchRows_every_row(df_patched, ncode, patch, flags) ==
  [i \in DOMAIN df_patched |-> PatchRow(df_patched[i], patch, flags)]

\* df_patched.loc[idx, ...] = ..., idx the rows of the ncode
PatchRows(df_patched, ncode, patch, flags) ==
  [i \in DOMAIN df_patched |->
     IF df_patched[i].ncode = ncode THEN PatchRow(df_patched[i], patch, flags)
     ELSE df_patched[i]]

\* One iteration of the loop of apply_local_patches.
ApplyOnePatch(df_patched, df_all_ratings, ncode, user_name, patch) ==
  PatchRows(df_patched, ncode, patch,
            determine_status(PatchedRatings(df_all_ratings, ncode, user_name, patch)))

RECURSIVE ApplyPatchLoop(_, _, _, _, _)
ApplyPatchLoop(df_patched, df_all_ratings, keys, user_name, patches_) ==
  IF keys = << >> THEN df_patched
  ELSE ApplyPatchLoop(
         ApplyOnePatch(df_patched, df_all_ratings, Head(keys), user_name, patches_[Head(keys)]),
         df_all_ratings, Tail(keys), user_name, patches_)

\* apply_local_patches(df, user_name), as a function of the session's
\* local_rating_patches and of what load_all_ratings_table returned.
apply_local_patches(df, user_name, patches_, df_all_ratings) ==
  IF DOMAIN patches_ = {} THEN df
  ELSE ApplyPatchLoop(df, df_all_ratings, SetToSeq(DOMAIN patches_), user_name, patches_)

\* ================================================================== state
VARIABLES
  \* classifier specification: the input records and the two results
  sub_df, row_out, batch_out,
  \* the remote user_ratings table: a set of records, one per (ncode, user_name)
  store,
  \* st.cache_data entries of load_user_ratings (per user_name),
  \* load_all_ratings_table and get_processed_novel_data (per user_name)
  cache_user, cache_all, cache_proc,
  \* per browser session: the login name, st.session_state["local_rating_patches"],
  \* the selected row, the current_my_rating bound into the rating buttons at
  \* the last render, and st.session_state["input_comment_area_<ncode>"]
  login, patches, sel, cur, comment_area,
  \* history: the arguments of each session's last save, and the number of saves
  prev, writes, expiries,
  \* one call of get_filtered_sorted_data: the memoized table it reads, its
  \* arguments, and the objects it leaves behind
  df_base, query, df_out,
  \* the failure the next read of the rating store meets, and the
  \* st.cache_data entries of load_novel_ratings_all (per ncode)
  fault, cache_novel,
  \* one run of the script: where it stands, what it has put on the page, what
  \* load_master_data returned to it, and the st.cache_data entry of
  \* load_master_data
  pc, page, master, cache_master,
  \* one list of render_novel_list: st.session_state["current_page_<suffix>"]
  \* and ["page_size_<suffix>"], the length of the table of the last call, and
  \* what that call put on the screen
  current_page, page_size, total_count, drawn

vars == << sub_df, row_out, batch_out, store, cache_user, cache_all, cache_proc,
           login, patches, sel, cur, comment_area, prev, writes, expiries,
           df_base, query, df_out, fault, cache_novel, pc, page, master, cache_master,
           current_page, page_size, total_count, drawn >>

listVars == << current_page, page_size, total_count, drawn >>
runVars == << pc, page, master, cache_master, listVars >>
qryVars == << df_base, query, df_out, fault, cache_novel, runVars >>
clfVars == << sub_df, row_out, batch_out, qryVars >>
sessVars == << store, cache_user, cache_all, cache_proc,
               login, patches, sel, cur, comment_area, prev, writes, expiries, qryVars >>

\* The browser session the model follows; the other reviewers act through
\* the rating table (OtherSave).
Sessions == {"s1"}
\* The reviewers the session can be logged in as (both pass the check of the
\* login form: they are in USER_LIST).
LoginUsers == {"a1", "g1"}
NoSel == "<no row selected>"
\* Comments a reviewer types.
TypedComments == {"", "c1"}
\* The four rating buttons.
ButtonRatings == {R_MARU, R_TRI, R_BATSU, R_NG}

Miss == [hit |-> FALSE, val |-> << >>]
Hit(v) == [hit |-> TRUE, val |-> v]

NoPrev == [kind |-> "none", user_name |-> "", ncode |-> "", target |-> "",
           cur |-> "", flip |-> FALSE]

\* Records found in the rating table before the first session starts: a
\* rating of a1 written with the second positive glyph, a rating of a user
\* outside both groups, a comment-only record.  The session specification
\* starts from this table; an empty table (whose DataFrame has no columns)
\* is not among its initial states.
LegacyPool ==
  { [ncode |-> "n1", user_name |-> "a1", rating |-> R_CIRCLE, comment |-> "c0", role |-> ROLE_ADMIN],
    [ncode |-> "n1", user_name |-> "x1", rating |-> R_MARU, comment |-> None, role |-> ROLE_GENERAL],
    [ncode |-> "n2", user_name |-> "g2", rating |-> "", comment |-> "c0", role |-> ROLE_GENERAL] }

\* ------------------------------------------------- classifier specification
BaseOrder == << "a1", "g1", "a2", "x1", "g2" >>
Orders == {BaseOrder, Reverse(BaseOrder)}
Absent == "<absent>"

RECURSIVE Layout(_, _)
\* The records of submission n1 that f gives, as DataFrame rows in order o.
Layout(f, o) ==
  IF o = << >> THEN << >>
  ELSE LET u == Head(o)
       IN (IF f[u] = Absent THEN << >>
           ELSE << [ncode |-> "n1", user_name |-> u, rating |-> f[u],
                    comment |-> "", role |-> RoleOf(u)] >>)
          \o Layout(f, Tail(o))

\* The ratings drawn for a reviewer: every kind of value for the first member
\* of each group, the three kinds of outcome for the others.
RatingsDrawn(u) ==
  IF u \in {"a1", "g1"} THEN RatingValues ELSE {R_MARU, R_BATSU, R_NG}

ClassifierInputs ==
  { Layout(f, o) :
      f \in { g \in [Reviewers -> RatingValues \cup {Absent}] :
                /\ \A u \in Reviewers : g[u] \in RatingsDrawn(u) \cup {Absent}
                /\ Cardinality({u \in Reviewers : g[u] # Absent}) <= MaxRecs },
      o \in Orders }

NotRun == [done |-> FALSE, flags |-> NoFlags, classification |-> ""]

NotLoaded == [loaded |-> FALSE, val |-> << >>]

\* Nothing of the list is on the screen: st.info and return None.
NoView ==
  [shown |-> FALSE, page |-> 0, PAGE_SIZE |-> 0, total_count |-> 0, total_pages |-> 0,
   start_idx |-> 0, end_idx |-> 0, pager |-> FALSE,
   prev_disabled |-> TRUE, next_disabled |-> TRUE]

\* render_novel_list has not been called in the session: neither key is in
\* st.session_state and nothing is on the screen.
InitListIdle ==
  /\ current_page = << >>
  /\ page_size = << >>
  /\ total_count = 0
  /\ drawn = NoView

\* No run of the script is in progress.
InitRunIdle ==
  /\ InitListIdle
  /\ pc = "idle"
  /\ page = {}
  /\ master = NotLoaded
  /\ cache_master = [hit |-> FALSE, val |-> << >>]

\* No call of get_filtered_sorted_data is in progress and no read has failed.
InitQueryIdle ==
  /\ InitRunIdle
  /\ df_base = << >>
  /\ query = << >>
  /\ df_out = NotRun
  /\ fault = "none"
  /\ cache_novel = << >>

InitSessionIdle ==
  /\ store = {}
  /\ cache_user = [u \in LoginUsers |-> Miss]
  /\ cache_all = Miss
  /\ cache_proc = [u \in LoginUsers |-> Miss]
  /\ login = [s \in Sessions |-> "a1"]
  /\ patches = [s \in Sessions |-> << >>]
  /\ sel = [s \in Sessions |-> NoSel]
  /\ cur = [s \in Sessions |-> None]
  /\ comment_area = [s \in Sessions |-> ""]
  /\ prev = [s \in Sessions |-> NoPrev]
  /\ writes = 0
  /\ expiries = 0

InitClassify ==
  /\ sub_df \in ClassifierInputs
  /\ row_out = NotRun
  /\ batch_out = NotRun
  /\ InitQueryIdle
  /\ InitSessionIdle

\* determine_status on the records, and the display string apply_local_patches
\* derives from its flags.
RowOutcome(flags) ==
  [done |-> TRUE, flags |-> flags, classification |-> get_disp_status_single(flags)]

RunDetermineStatus ==
  /\ ~row_out.done
  /\ row_out' = RowOutcome(determine_status(sub_df))
  /\ UNCHANGED << sub_df, batch_out >>
  /\ UNCHANGED sessVars

RowOfNcode(df, ncode) == df[CHOOSE i \in DOMAIN df : df[i].ncode = ncode]

Outcome(row) ==
  [done |-> TRUE, flags |-> [k \in FlagNames |-> row[k]],
   classification |-> row.classification]

\* The build of the aggregate from the same records: the row of n1.
RunBatchBuild ==
  /\ ~batch_out.done
  /\ batch_out' =
       Outcome(RowOfNcode(get_processed_novel_data("a1", RowsOfUser(sub_df, "a1"), sub_df), "n1"))
  /\ UNCHANGED << sub_df, row_out >>
  /\ UNCHANGED sessVars

NextClassify == RunDetermineStatus \/ RunBatchBuild

SpecClassify == InitClassify /\ [][NextClassify]_vars


\* ---------------------------------------------------- session specification
\* supabase.table("user_ratings").select("*").execute(): the rows in the
\* order the table returns them.
SelectAll(st) == SetToSeq(st)
\* ... .eq("user_name", user_name)
SelectUser(st, user_name) == RowsOfUser(SetToSeq(st), user_name)

\* Mutant of Upsert: the conflict key is the ncode alone, so a record
\* replaces the records of all reviewers for the submission.
Upsert_by_ncode(st, rec) == {r \in st : r.ncode # rec.ncode} \cup {rec}

\* upsert(data, on_conflict="ncode,user_name")
Upsert(st, rec) ==
  {r \in st : ~(r.ncode = rec.ncode /\ r.user_name = rec.user_name)} \cup {rec}

StoreRows(st, ncode, user_name) == {r \in st : r.ncode = ncode /\ r.user_name = user_name}
\* The rating the table holds for (ncode, user_name); None without a record.
StoreRating(st, ncode, user_name) ==
  IF StoreRows(st, ncode, user_name) = {} THEN None
  ELSE (CHOOSE r \in StoreRows(st, ncode, user_name) : TRUE).rating
StoreComment(st, ncode, user_name) ==
  IF StoreRows(st, ncode, user_name) = {} THEN None
  ELSE (CHOOSE r \in StoreRows(st, ncode, user_name) : TRUE).comment

\* Mutant of Put: the dict is replaced by one holding the new entry only.
Put_replaces(d, k, v) == [x \in {k} |-> v]

\* d[k] = v on a Python dict
Put(d, k, v) == [x \in DOMAIN d \cup {k} |-> IF x = k THEN v ELSE d[x]]

\* The st.cache_data entries, as one record.
Caches == [cu |-> cache_user, ca |-> cache_all, cp |-> cache_proc]

\* load_user_ratings(user_name): the cached value, or a read of the table.
load_user_ratings(c, st, user_name) ==
  IF c.cu[user_name].hit THEN c.cu[user_name].val ELSE SelectUser(st, user_name)
\* load_all_ratings_table()
load_all_ratings_table(c, st) ==
  IF c.ca.hit THEN c.ca.val ELSE SelectAll(st)

\* The cache entries after a call of each memoized function.
FillUser(c, st, user_name) ==
  [c EXCEPT !.cu[user_name] = Hit(load_user_ratings(c, st, user_name))]
FillAll(c, st) == [c EXCEPT !.ca = Hit(load_all_ratings_table(c, st))]
FillProc(c, user_name) ==
  [c EXCEPT !.cp[user_name] =
     Hit(get_processed_novel_data(user_name, c.cu[user_name].val, c.ca.val))]
\* Mutant of CallProcessed: the aggregate is rebuilt at every call.
CallProcessed_always_rebuilds(c, st, user_name) ==
  FillProc([c EXCEPT !.cu[user_name] = Hit(SelectUser(st, user_name)),
                     !.ca = Hit(SelectAll(st))], user_name)

\* get_processed_novel_data(user_name) through st.cache_data(ttl=900)
CallProcessed(c, st, user_name) ==
  IF c.cp[user_name].hit THEN c
  ELSE FillProc(FillAll(FillUser(c, st, user_name), st), user_name)
\* apply_local_patches(df, user_name): load_all_ratings_table is called only
\* when the session has pending writes.
CallPatches(c, st, patches_) == IF DOMAIN patches_ = {} THEN c ELSE FillAll(c, st)

\* The reconciled table a run shows, read from the entries the run left.
View(c, user_name, patches_) ==
  apply_local_patches(c.cp[user_name].val, user_name, patches_, c.ca.val)

\* Mutant of FragmentRun: apply_local_patches writes into the table the cache
\* holds instead of a copy of it.
InPlace(c, user_name, patches_) ==
  [c EXCEPT !.cp[user_name] = Hit(View(c, user_name, patches_))]
FragmentRun_patches_in_place(c, st, user_name, patches_) ==
  InPlace(CallPatches(CallProcessed(c, st, user_name), st, patches_), user_name, patches_)

\* get_filtered_sorted_data, as main_content calls it (a fragment rerun).
FragmentRun(c, st, user_name, patches_) ==
  CallPatches(CallProcessed(c, st, user_name), st, patches_)

\* if not df_export.empty, over the rows that are not unclassified
AnyClassified(df) == \E i \in DOMAIN df : ~df[i].is_unclassified
ExportFill(c, st, df) == IF AnyClassified(df) THEN FillAll(c, st) ELSE c
\* The export section of a full script run reads load_all_ratings_table when
\* the reconciled table has a classified row.
CallExport(c, st, user_name, patches_) ==
  ExportFill(c, st, View(c, user_name, patches_))

\* A full script run: the export section, then main_content.
FullRun(c, st, user_name, patches_) ==
  CallExport(FragmentRun(c, st, user_name, patches_), st, user_name, patches_)

SetCaches(c) ==
  /\ cache_user' = c.cu
  /\ cache_all' = c.ca
  /\ cache_proc' = c.cp

\* initial_comment: my_comment, NaN shown as the empty text
InitialComment(my_comment) == IF my_comment = None THEN "" ELSE my_comment

\* main_content renders the selected row: the rating bound into the buttons.
ShowRating(s, row) == cur' = [cur EXCEPT ![s] = row.my_rating]
\* ... and the comment area, created with value=initial_comment.
ShowComment(s, row) ==
  comment_area' = [comment_area EXCEPT ![s] = InitialComment(row.my_comment)]

ShowRow(s, row) == ShowRating(s, row) /\ ShowComment(s, row)

Init ==
  /\ sub_df = << >>
  /\ row_out = NotRun
  /\ batch_out = NotRun
  /\ InitQueryIdle
  /\ store = LegacyPool
  /\ cache_user = [u \in LoginUsers |-> Miss]
  /\ cache_all = Miss
  /\ cache_proc = [u \in LoginUsers |-> Miss]
  /\ login \in [Sessions -> LoginUsers]
  /\ patches = [s \in Sessions |-> << >>]
  /\ sel = [s \in Sessions |-> NoSel]
  /\ cur = [s \in Sessions |-> None]
  /\ comment_area = [s \in Sessions |-> ""]
  /\ prev = [s \in Sessions |-> NoPrev]
  /\ writes = 0
  /\ expiries = 0

\* A full script run of session s that keeps the selected row, if any
\* (a sidebar interaction, a reload of the data).
RerunShow(s, c) ==
  /\ SetCaches(c)
  /\ IF sel[s] = NoSel THEN UNCHANGED cur
     ELSE ShowRating(s, RowOfNcode(View(c, login[s], patches[s]), sel[s]))
Rerun(s) ==
  /\ RerunShow(s, FullRun(Caches, store, login[s], patches[s]))
  /\ UNCHANGED << store, login, patches, sel, comment_area, prev, writes, expiries >>
  /\ UNCHANGED clfVars

\* The reviewer selects row ncode in the grid: main_content reruns and
\* renders the detail panel of the row.
SelectShow(s, ncode, c) ==
  /\ SetCaches(c)
  /\ ShowRow(s, RowOfNcode(View(c, login[s], patches[s]), ncode))
Select(s, ncode) ==
  /\ sel[s] # ncode
  /\ sel' = [sel EXCEPT ![s] = ncode]
  /\ SelectShow(s, ncode, FragmentRun(Caches, store, login[s], patches[s]))
  /\ UNCHANGED << store, login, patches, prev, writes, expiries >>
  /\ UNCHANGED clfVars

\* The selection is lost (the row leaves the list shown): the detail panel
\* and its widgets are not rendered, so their widget state is dropped.
Deselect(s) ==
  /\ sel[s] # NoSel
  /\ sel' = [sel EXCEPT ![s] = NoSel]
  /\ cur' = [cur EXCEPT ![s] = None]
  /\ comment_area' = [comment_area EXCEPT ![s] = ""]
  /\ UNCHANGED << store, cache_user, cache_all, cache_proc, login, patches, prev, writes, expiries >>
  /\ UNCHANGED clfVars

\* The record save_rating and save_comment_only upsert.
Data(ncode, user_name, rating, comment, role) ==
  [ncode |-> ncode, user_name |-> user_name, rating |-> rating,
   comment |-> comment, role |-> role]
PatchOf(data) == [rating |-> data.rating, comment |-> data.comment, role |-> data.role]

\* Mutant of save_rating_effect: the pending writes are kept in one map of the
\* process, which every session reads.
save_rating_effect_shared(s, data, st) ==
  /\ store' = Upsert(st, data)
  /\ patches' = [t \in DOMAIN patches |-> Put(patches[t], data.ncode, PatchOf(data))]

\* Mutant of save_rating_effect: the upsert alone, no pending write.
save_rating_effect_no_patch(s, data, st) ==
  /\ store' = Upsert(st, data)
  /\ patches' = patches

\* save_rating: the upsert, then the entry of local_rating_patches.
save_rating_effect(s, data, st) ==
  /\ store' = Upsert(st, data)
  /\ patches' = [patches EXCEPT ![s] = Put(@, data.ncode, PatchOf(data))]

\* The fragment rerun that follows a callback: the detail panel of the
\* selected row is rendered again, the comment area keeps its widget state.
AfterSaveShow(s, ncode, user_name, patches_, c) ==
  /\ SetCaches(c)
  /\ ShowRating(s, RowOfNcode(View(c, user_name, patches_), ncode))

\* Mutant of NewRating: a click never clears the rating.
NewRating_never_clears(current_rating, target_rating) == target_rating

\* new_rating = None if current_rating == target_rating else target_rating
NewRating(current_rating, target_rating) ==
  IF current_rating = target_rating THEN None ELSE target_rating

\* Mutant of on_rating_button_click: the comment is not read from the
\* comment area.
on_rating_button_click_drops_comment(s, ncode, user_name, target_rating, current_rating, role) ==
  Data(ncode, user_name, NewRating(current_rating, target_rating), "", role)

\* on_rating_button_click: the record it hands to save_rating.
on_rating_button_click(s, ncode, user_name, target_rating, current_rating, role) ==
  Data(ncode, user_name, NewRating(current_rating, target_rating), comment_area[s], role)

ClickDo(s, data) ==
  /\ save_rating_effect(s, data, store)
  /\ AfterSaveShow(s, data.ncode, data.user_name, Put(patches[s], data.ncode, PatchOf(data)),
                   FragmentRun(Caches, Upsert(store, data), data.user_name,
                               Put(patches[s], data.ncode, PatchOf(data))))

\* The reviewer clicks one of the four rating buttons of the selected row.
ClickRating(s, target_rating) ==
  /\ sel[s] # NoSel
  /\ writes < MaxWrites
  /\ ClickDo(s, on_rating_button_click(s, sel[s], login[s], target_rating, cur[s],
                                       RoleOf(login[s])))
  /\ prev' = [prev EXCEPT ![s] =
       [kind |-> "rate", user_name |-> login[s], ncode |-> sel[s],
        target |-> target_rating, cur |-> cur[s], flip |-> ~prev[s].flip]]
  /\ writes' = writes + 1
  /\ UNCHANGED expiries
  /\ UNCHANGED << login, sel, comment_area >>
  /\ UNCHANGED clfVars

\* current_rating of save_comment_only: the rating of the first row of the
\* ncode in load_user_ratings(user_name), None without such a row.
CurrentRatingOf(current, ncode) ==
  IF RowsOfNcode(current, ncode) = << >> THEN None
  ELSE RowsOfNcode(current, ncode)[1].rating

\* save_comment_only: the record it upserts and puts in local_rating_patches.
save_comment_only(c, st, ncode, user_name, comment, role) ==
  Data(ncode, user_name,
       CurrentRatingOf(load_user_ratings(c, st, user_name), ncode), comment, role)

CommentDo(s, data) ==
  /\ save_rating_effect(s, data, store)
  /\ AfterSaveShow(s, data.ncode, data.user_name, Put(patches[s], data.ncode, PatchOf(data)),
                   FragmentRun(FillUser(Caches, store, data.user_name), Upsert(store, data),
                               data.user_name, Put(patches[s], data.ncode, PatchOf(data))))
  /\ prev' = [prev EXCEPT ![s] =
       [kind |-> "comment", user_name |-> data.user_name, ncode |-> data.ncode,
        target |-> data.comment, cur |-> data.rating, flip |-> ~prev[s].flip]]

\* The reviewer changes the text of the comment area of the selected row:
\* on_comment_change calls save_comment_only.
TypeComment(s, comment) ==
  /\ sel[s] # NoSel
  /\ writes < MaxWrites
  /\ comment # comment_area[s]
  /\ comment_area' = [comment_area EXCEPT ![s] = comment]
  /\ CommentDo(s, save_comment_only(Caches, store, sel[s], login[s], comment, RoleOf(login[s])))
  /\ writes' = writes + 1
  /\ UNCHANGED expiries
  /\ UNCHANGED << login, sel >>
  /\ UNCHANGED clfVars

\* The time-to-live of a cache entry runs out (ttl=300 for load_user_ratings,
\* ttl=900 for the other two).
ExpireUser(user_name) ==
  /\ cache_user[user_name].hit
  /\ cache_user' = [cache_user EXCEPT ![user_name] = Miss]
  /\ UNCHANGED << store, cache_all, cache_proc, login, patches, sel, cur, comment_area, prev, writes >>
  /\ expiries < MaxExpiries
  /\ expiries' = expiries + 1
  /\ UNCHANGED clfVars
ExpireAll ==
  /\ cache_all.hit
  /\ cache_all' = Miss
  /\ UNCHANGED << store, cache_user, cache_proc, login, patches, sel, cur, comment_area, prev, writes >>
  /\ expiries < MaxExpiries
  /\ expiries' = expiries + 1
  /\ UNCHANGED clfVars
ExpireProc(user_name) ==
  /\ cache_proc[user_name].hit
  /\ cache_proc' = [cache_proc EXCEPT ![user_name] = Miss]
  /\ UNCHANGED << store, cache_user, cache_all, login, patches, sel, cur, comment_area, prev, writes >>
  /\ expiries < MaxExpiries
  /\ expiries' = expiries + 1
  /\ UNCHANGED clfVars

\* Ratings the other reviewers save.
OtherRatings == {R_MARU, R_NG}

\* save_rating in the session of another reviewer: its upsert reaches the
\* table; its pending write and its rerun belong to that session.
OtherSave(user_name, ncode, rating) ==
  /\ \A s \in Sessions : login[s] # user_name
  /\ writes < MaxWrites
  /\ StoreRating(store, ncode, user_name) # rating
  /\ store' = Upsert(store, Data(ncode, user_name, rating, "", RoleOf(user_name)))
  /\ writes' = writes + 1
  /\ UNCHANGED expiries
  /\ UNCHANGED << cache_user, cache_all, cache_proc, login, patches, sel, cur, comment_area, prev >>
  /\ UNCHANGED clfVars

Next ==
  \/ \E s \in Sessions : Rerun(s)
  \/ \E u \in LoginUsers, ncode \in Ncodes, r \in OtherRatings : OtherSave(u, ncode, r)
  \/ \E s \in Sessions, ncode \in Ncodes : Select(s, ncode)
  \/ \E s \in Sessions : Deselect(s)
  \/ \E s \in Sessions, t \in ButtonRatings : ClickRating(s, t)
  \/ \E s \in Sessions, comment \in TypedComments : TypeComment(s, comment)
  \/ \E u \in LoginUsers : ExpireUser(u)
  \/ ExpireAll
  \/ \E u \in LoginUsers : ExpireProc(u)

Spec == Init /\ [][Next]_vars


\* ------------------------------------------------- claims on the classifier
Ratings(df) == {df[i].rating : i \in DOMAIN df}
\* The non-empty ratings the members of a group gave in df.
RatedBy(df, group) ==
  {df[i].rating : i \in {j \in DOMAIN df : df[j].user_name \in group /\ IsValidRating(df[j])}}
\* The outcomes computed so far: of the row-wise and of the batch classifier.
Outcomes == {o \in {row_out, batch_out} : o.done}

\* C1: both classifiers mark a submission is_ng if and only if at least one
\* of its records has the rating NG, whatever the other records say.
C1_NgIffAnyRecordNg ==
  \A o \in Outcomes : o.flags.is_ng <=> R_NG \in Ratings(sub_df)

\* Three positive records and one NG record: the submission is Blocking for
\* both classifiers.
C1_ThreePositiveOneNg ==
  /\ row_out.done /\ batch_out.done
  /\ Cardinality({i \in DOMAIN sub_df : IsPositive(sub_df[i].rating)}) = 3
  /\ Cardinality({i \in DOMAIN sub_df : sub_df[i].rating = R_NG}) = 1
  /\ row_out.flags.is_ng /\ batch_out.flags.is_ng
  /\ row_out.classification = DISP_NG /\ batch_out.classification = DISP_NG

\* C3: without a Blocking record, one positive (Positive or Hold) rating of
\* a PrimaryReviewers member makes the submission PrimaryApproved and not
\* PrimaryRejected, even if other members rated it Negative; if members rated
\* it and none of them positively, it is PrimaryRejected.
C3_OnePrimaryPositiveSuffices ==
  \A o \in Outcomes :
    R_NG \notin Ratings(sub_df) =>
      /\ (\E r \in RatedBy(sub_df, ADMIN_TEAM_USERS) : IsPositive(r))
           => o.flags.is_admin_evaluated /\ ~o.flags.is_admin_rejected
      /\ (RatedBy(sub_df, ADMIN_TEAM_USERS) # {}
          /\ \A r \in RatedBy(sub_df, ADMIN_TEAM_USERS) : ~IsPositive(r))
           => o.flags.is_admin_rejected /\ ~o.flags.is_admin_evaluated

\* One member rated Negative, the other Hold: PrimaryApproved.
C3_NegativeAndHold ==
  /\ row_out.done /\ batch_out.done
  /\ RatedBy(sub_df, ADMIN_TEAM_USERS) = {R_BATSU, R_TRI}
  /\ R_NG \notin Ratings(sub_df)
  /\ row_out.flags.is_admin_evaluated /\ batch_out.flags.is_admin_evaluated
  /\ ~row_out.flags.is_admin_rejected /\ ~batch_out.flags.is_admin_rejected

\* The records with the record of `user_name` removed, or set to `rating`
\* (appended if there is none).
WithoutUser(df, user_name) == SelectSeq(df, LAMBDA r : r.user_name # user_name)
WithRating(df, user_name, rating) ==
  IF \E i \in DOMAIN df : df[i].user_name = user_name
  THEN [i \in DOMAIN df |->
          IF df[i].user_name = user_name THEN [df[i] EXCEPT !.rating = rating] ELSE df[i]]
  ELSE Append(df, [ncode |-> "n1", user_name |-> user_name, rating |-> rating,
                   comment |-> "", role |-> RoleOf(user_name)])
\* The records after one change of a PrimaryReviewers rating that is not NG:
\* removed, or set to a positive, a negative or an empty rating.
PrimaryVariants(df) ==
  {WithoutUser(df, u) : u \in ADMIN_TEAM_USERS}
    \cup {WithRating(df, u, r) : u \in ADMIN_TEAM_USERS, r \in {R_MARU, R_BATSU, ""}}

GeneralFlags(flags) == << flags.is_general_evaluated, flags.is_general_rejected >>

BatchFlags(df) ==
  RowOfNcode(get_processed_novel_data("a1", RowsOfUser(df, "a1"), df), "n1")

\* C4: without a Blocking record the General outcome is decided by the rated
\* records of GeneralEditors members alone (approved if one of them is
\* positive, rejected if they rated and none is positive, neither otherwise),
\* so adding, removing or changing a non-Blocking PrimaryReviewers rating
\* leaves both General flags as they are.
C4_GeneralIgnoresPrimary ==
  R_NG \notin Ratings(sub_df) =>
    /\ \A o \in Outcomes :
         /\ o.flags.is_general_evaluated
              <=> \E r \in RatedBy(sub_df, GENERAL_TEAM_USERS) : IsPositive(r)
         /\ o.flags.is_general_rejected
              <=> /\ RatedBy(sub_df, GENERAL_TEAM_USERS) # {}
                  /\ \A r \in RatedBy(sub_df, GENERAL_TEAM_USERS) : ~IsPositive(r)
    /\ row_out.done =>
         \A df \in PrimaryVariants(sub_df) :
           GeneralFlags(determine_status(df)) = GeneralFlags(row_out.flags)
    /\ batch_out.done =>
         \A df \in PrimaryVariants(sub_df) :
           GeneralFlags(BatchFlags(df)) = GeneralFlags(batch_out.flags)

\* A General approval next to a Primary approval: the General flags are those
\* of the same records without the Primary ratings.
C4_GeneralNextToPrimary ==
  /\ row_out.done /\ batch_out.done
  /\ R_NG \notin Ratings(sub_df)
  /\ R_MARU \in RatedBy(sub_df, ADMIN_TEAM_USERS)
  /\ RatedBy(sub_df, GENERAL_TEAM_USERS) = {R_BATSU}
  /\ row_out.flags.is_general_rejected /\ batch_out.flags.is_general_rejected
  /\ row_out.flags.is_admin_evaluated /\ batch_out.flags.is_admin_evaluated

\* The display string by priority Blocking > Primary > General > none.
DisplayByPriority(flags) ==
  CASE flags.is_ng -> "NG"
    [] ~flags.is_ng /\ flags.is_admin_evaluated -> "Admin<U+3007><U+25B3>"
    [] ~flags.is_ng /\ ~flags.is_admin_evaluated /\ flags.is_admin_rejected -> "Admin<U+00D7>"
    [] ~flags.is_ng /\ ~flags.is_admin_evaluated /\ ~flags.is_admin_rejected
         /\ flags.is_general_evaluated -> "Gen<U+3007><U+25B3>"
    [] ~flags.is_ng /\ ~flags.is_admin_evaluated /\ ~flags.is_admin_rejected
         /\ ~flags.is_general_evaluated /\ flags.is_general_rejected -> "Gen<U+00D7>"
    [] OTHER -> "-"

\* C5: the display string is chosen by priority Blocking > Primary > General
\* > none, with the strings NG, Admin(U+3007)(U+25B3), Admin(U+00D7),
\* Gen(U+3007)(U+25B3), Gen(U+00D7) and '-'; a submission the PrimaryReviewers
\* rated only Negative and a GeneralEditors member rated Positive shows
\* Admin(U+00D7) while is_admin_rejected and is_general_evaluated are both true.
C5_DisplayPriority ==
  \A o \in Outcomes :
    /\ o.classification = DisplayByPriority(o.flags)
    /\ (/\ RatedBy(sub_df, ADMIN_TEAM_USERS) = {R_BATSU}
        /\ R_MARU \in RatedBy(sub_df, GENERAL_TEAM_USERS)
        /\ R_NG \notin Ratings(sub_df))
         => /\ o.classification = "Admin<U+00D7>"
            /\ o.flags.is_admin_rejected
            /\ o.flags.is_general_evaluated

\* Primary Negative and General Positive, shown as Admin(U+00D7) by both
\* classifiers.
C5_PrimaryRejectedGeneralApproved ==
  /\ row_out.done /\ batch_out.done
  /\ RatedBy(sub_df, ADMIN_TEAM_USERS) = {R_BATSU}
  /\ RatedBy(sub_df, GENERAL_TEAM_USERS) = {R_MARU}
  /\ R_NG \notin Ratings(sub_df)
  /\ row_out.classification = DISP_ADMIN_NEG
  /\ batch_out.classification = DISP_ADMIN_NEG

TrueFlags(flags) == {k \in FlagNames : flags[k]}
InTeams(df) == RatedBy(df, ADMIN_TEAM_USERS) \cup RatedBy(df, GENERAL_TEAM_USERS)

RunNow(s) == FragmentRun(Caches, store, login[s], patches[s])
ViewNow(s) == View(RunNow(s), login[s], patches[s])

NoRatedRecord(recs) == \A i \in DOMAIN recs : ~IsValidRating(recs[i])
UnclassifiedOnly(row) ==
  /\ TrueFlags(row) = {"is_unclassified"}
  /\ row.classification = DISP_NONE

ClickStepOf(s) == prev'[s].flip # prev[s].flip /\ prev'[s].kind = "rate"
CommentStepOf(s) == prev'[s].flip # prev[s].flip /\ prev'[s].kind = "comment"

NoRating(rating) == rating \in {None, ""}

\* C7: toggle law.  The rating the buttons are bound to is the rating the
\* table holds for the reviewer.  From a state in which the reviewer has no
\* rating on the submission, two successive clicks of the same button (each
\* followed by the rerun that renders the buttons again, no other save of the
\* session in between) leave the rating None in the pending write and in the
\* record of the table.
C7_ToggleLaw ==
  [][\A s \in Sessions :
       ClickStepOf(s) =>
         /\ cur[s] = StoreRating(store, sel[s], login[s])
         /\ (/\ prev[s].kind = "rate"
             /\ prev[s].ncode = sel[s]
             /\ prev[s].target = prev'[s].target
             /\ NoRating(prev[s].cur))
              => /\ StoreRating(store', sel[s], login[s]) = None
                 /\ patches'[s][sel[s]].rating = None
                 /\ cur'[s] = None]_vars

\* Two clicks of one button on n2, where the reviewer had no record: the
\* record exists and its rating is None, as is the pending write's.
C7_ClickedTwice ==
  \E s \in Sessions :
    /\ writes = 2
    /\ prev[s].kind = "rate"
    /\ prev[s].ncode = "n2"
    /\ prev[s].cur = prev[s].target
    /\ StoreRows(store, "n2", login[s]) # {}
    /\ StoreRating(store, "n2", login[s]) = None
    /\ patches[s]["n2"].rating = None

\* The RatingValue of a glyph: the two positive glyphs are one value.
RatingValueOf(rating) == IF rating = R_CIRCLE THEN R_MARU ELSE rating

\* C8 as stated: after a rating click the record holds no rating if the
\* submitted RatingValue is the one the reviewer held, the two positive glyphs
\* U+3007 and U+25CB counting as the same value, and the submitted value
\* otherwise.
C8_SameValueClears ==
  \A s \in Sessions :
    prev[s].kind = "rate" =>
      StoreRating(store, prev[s].ncode, prev[s].user_name)
        = IF RatingValueOf(prev[s].cur) = RatingValueOf(prev[s].target)
          THEN None ELSE prev[s].target

\* The comment the reviewer holds on a submission: that of the pending write
\* if there is one, else that of the record; no comment reads as "".
HeldComment(s, ncode) ==
  InitialComment(IF ncode \in DOMAIN patches[s] THEN patches[s][ncode].comment
                 ELSE StoreComment(store, ncode, login[s]))
\* The rating the reviewer holds, likewise.
HeldRating(s, ncode) ==
  IF ncode \in DOMAIN patches[s] THEN patches[s][ncode].rating
  ELSE StoreRating(store, ncode, login[s])

\* C9: a rating click never changes the reviewer's comment: the comment of
\* the record and of the pending write after the click is the comment the
\* reviewer held before it (an absent comment and the empty comment are the
\* same comment), and the comment area keeps its text.
C9_ClickKeepsComment ==
  [][\A s \in Sessions :
       ClickStepOf(s) =>
         /\ InitialComment(StoreComment(store', sel[s], login[s])) = HeldComment(s, sel[s])
         /\ InitialComment(patches'[s][sel[s]].comment) = HeldComment(s, sel[s])
         /\ comment_area'[s] = comment_area[s]]_vars

\* A rating click on a submission whose comment the reviewer typed before:
\* the record and the pending write still carry the comment.
C9_ClickedAfterComment ==
  \E s \in Sessions :
    /\ prev[s].kind = "rate"
    /\ writes = 2
    /\ StoreComment(store, prev[s].ncode, login[s]) = "c1"
    /\ patches[s][prev[s].ncode].comment = "c1"
    /\ patches[s][prev[s].ncode].rating = prev[s].target

\* C10 as stated: a comment edit preserves the rating the reviewer holds,
\* also one submitted earlier in the session and held by the pending write.
C10_CommentKeepsRating ==
  [][\A s \in Sessions :
       CommentStepOf(s) =>
         /\ StoreRating(store', sel[s], login[s]) = HeldRating(s, sel[s])
         /\ patches'[s][sel[s]].rating = HeldRating(s, sel[s])]_vars


\* -------------------------------------------- reconciliation specification
\* apply_local_patches against a rebuild, as pure functions of their inputs:
\* sub_df is the table as load_all_ratings_table returned it (the records of
\* submission n1), patches holds one pending write of the caller for n1.
\* row_out receives the reconciled row of n1, batch_out the row of n1 in a
\* build from the table after the write has been stored.
PatchRatings == {None, R_MARU, R_BATSU, R_NG}
PatchInputs(user_name) ==
  { [rating |-> r, comment |-> "c1", role |-> RoleOf(user_name)] : r \in PatchRatings }

\* The ratings drawn for a reviewer in the table.
RatingsStored(u) ==
  IF u \in {"a1", "g1"} THEN {"", R_MARU, R_BATSU, R_NG}
  ELSE IF u \in Outsiders THEN {R_MARU}
  ELSE {R_MARU, R_BATSU}

ReconcileInputs ==
  { Layout(f, o) :
      f \in { g \in [Reviewers -> RatingValues \cup {Absent}] :
                /\ \A u \in Reviewers : g[u] \in RatingsStored(u) \cup {Absent}
                /\ Cardinality({u \in Reviewers : g[u] # Absent}) <= MaxRecs },
      o \in Orders }

InitReconcile ==
  /\ sub_df \in ReconcileInputs
  /\ row_out = NotRun
  /\ batch_out = NotRun
  /\ InitQueryIdle
  /\ store = {}
  /\ cache_user = [u \in LoginUsers |-> Miss]
  /\ cache_all = Miss
  /\ cache_proc = [u \in LoginUsers |-> Miss]
  /\ login \in [Sessions -> LoginUsers]
  /\ patches \in { [s \in Sessions |-> [n \in {"n1"} |-> patch]] :
                      patch \in PatchInputs(login[CHOOSE s \in Sessions : TRUE]) }
  /\ sel = [s \in Sessions |-> NoSel]
  /\ cur = [s \in Sessions |-> None]
  /\ comment_area = [s \in Sessions |-> ""]
  /\ prev = [s \in Sessions |-> NoPrev]
  /\ writes = 0
  /\ expiries = 0

\* The caller of the reconciliation specification.
Caller == login[CHOOSE s \in Sessions : TRUE]
PendingOfCaller == patches[CHOOSE s \in Sessions : TRUE]

\* The aggregate built from the table df_all_ratings for user_name.
BuildOf(df_all_ratings, user_name) ==
  get_processed_novel_data(user_name, RowsOfUser(df_all_ratings, user_name), df_all_ratings)

\* The reconciled table: the pending writes applied to the aggregate built
\* from the same table.
ReconciledOf(df_all_ratings, user_name, patches_) ==
  apply_local_patches(BuildOf(df_all_ratings, user_name), user_name, patches_, df_all_ratings)

\* The table after the upsert of the pending write of n1.
StoredOf(df_all_ratings, user_name, patches_) ==
  SelectAll(Upsert({df_all_ratings[i] : i \in DOMAIN df_all_ratings},
                   Data("n1", user_name, patches_["n1"].rating, patches_["n1"].comment,
                        patches_["n1"].role)))

\* A row as the caller sees it.
FullOutcome(row) ==
  [done |-> TRUE, flags |-> [k \in FlagNames |-> row[k]],
   classification |-> row.classification,
   my_rating |-> row.my_rating, my_comment |-> row.my_comment]

RunReconcile ==
  /\ ~row_out.done
  /\ row_out' = FullOutcome(RowOfNcode(ReconciledOf(sub_df, Caller, PendingOfCaller), "n1"))
  /\ UNCHANGED << sub_df, batch_out >>
  /\ UNCHANGED sessVars

RunRebuild ==
  /\ ~batch_out.done
  /\ batch_out' =
       FullOutcome(RowOfNcode(BuildOf(StoredOf(sub_df, Caller, PendingOfCaller), Caller), "n1"))
  /\ UNCHANGED << sub_df, row_out >>
  /\ UNCHANGED sessVars

NextReconcile == RunReconcile \/ RunRebuild

SpecReconcile == InitReconcile /\ [][NextReconcile]_vars


\* --------------------------------------------- claims on the reconciliation
ReconciledNow == ReconciledOf(sub_df, Caller, PendingOfCaller)
AppliedAgain(df) == apply_local_patches(df, Caller, PendingOfCaller, sub_df)

\* C11: apply_local_patches is idempotent: applied to its own result with
\* the same pending writes and the same table snapshot it returns that
\* result, whether the base table was built from the snapshot or from an
\* older (empty) table.
C11_ReconcileIdempotent ==
  row_out.done =>
    /\ AppliedAgain(ReconciledNow) = ReconciledNow
    /\ row_out = FullOutcome(RowOfNcode(AppliedAgain(ReconciledNow), "n1"))
    /\ AppliedAgain(AppliedAgain(BuildOf(<< >>, Caller)))
         = AppliedAgain(BuildOf(<< >>, Caller))

\* A reconciliation that changed the status of the row it was applied to.
C11_PatchChangedRow ==
  /\ row_out.done
  /\ row_out.classification # RowOfNcode(BuildOf(sub_df, Caller), "n1").classification
  /\ row_out.my_rating # RowOfNcode(BuildOf(sub_df, Caller), "n1").my_rating

C13_ReconciledRowIsRebuilt ==
  (row_out.done /\ batch_out.done) => row_out = batch_out



\* Every submission of the catalog has exactly one row in the table.
EachSubmissionOnce(df) ==
  /\ Len(df) = Len(df_master)
  /\ \A ncode \in Ncodes : Len(RowsOfNcode(df, ncode)) = 1

\* The records the reconciliation classifies ncode from.
ReconciledRecords(ncode) ==
  IF ncode \in DOMAIN PendingOfCaller
  THEN PatchedRatings(sub_df, ncode, Caller, PendingOfCaller[ncode])
  ELSE RowsOfNcode(sub_df, ncode)

\* The built and the reconciled table hold every submission once, and the
\* submissions without a rated record are Unclassified in them.
OnceAndUnclassified(built, reconciled) ==
  /\ EachSubmissionOnce(built)
  /\ EachSubmissionOnce(reconciled)
  /\ \A ncode \in Ncodes :
       /\ NoRatedRecord(RowsOfNcode(sub_df, ncode))
            => UnclassifiedOnly(RowOfNcode(built, ncode))
       /\ NoRatedRecord(ReconciledRecords(ncode))
            => UnclassifiedOnly(RowOfNcode(reconciled, ncode))

Enumerated == {R_MARU, R_CIRCLE, R_TRI, R_BATSU, R_NG}
\* The records without those whose rating is a non-empty value that is not
\* enumerated.
WithoutMalformed(df) ==
  SelectSeq(df, LAMBDA r : ~IsValidRating(r) \/ r.rating \in Enumerated)

\* C20 as stated: a record whose rating is a non-empty value outside the
\* enumerated set is ignorable for both classifiers: the classification of
\* the records is the classification of the records without it.
C20_MalformedIsIgnored ==
  /\ row_out.done =>
       row_out.classification
         = get_disp_status_single(determine_status(WithoutMalformed(sub_df)))
  /\ batch_out.done =>
       batch_out.classification
         = RowOfNcode(BuildOf(WithoutMalformed(sub_df), Caller), "n1").classification


\* ----------------------------------------------------- claims on the export
\* df_export[~df_export["is_unclassified"].fillna(True)]
ExportRows(df_export) == SelectSeq(df_export, LAMBDA row : ~row.is_unclassified)

\* The export has one row for each submission whose classification is not
\* '-' and none for the others.
ExportIsClassified(df_export) ==
  \A ncode \in Ncodes :
    Len(RowsOfNcode(ExportRows(df_export), ncode))
      = IF RowOfNcode(df_export, ncode).classification # DISP_NONE THEN 1 ELSE 0

\* C19 as stated: the export of a session without pending writes (the rows of
\* the built table that pass the filter on is_unclassified) holds exactly the
\* submissions whose classification is not Unclassified ('-'), one row each.
C19_ExportIsClassified ==
  batch_out.done => ExportIsClassified(BuildOf(sub_df, Caller))


\* ------------------------------------------ claims on the session, continued
\* The record the table holds for (ncode, user_name).
StoreData(st, ncode, user_name) == CHOOSE r \in StoreRows(st, ncode, user_name) : TRUE

\* The records of the submission in a snapshot, with the record data in place
\* of the reviewer's.
RecordsWith(df_all_ratings, data) ==
  Append(WithoutUser(RowsOfNcode(df_all_ratings, data.ncode), data.user_name), data)

\* The row of ncode in the reconciled table shows the record data: its rating
\* and comment as my_rating and my_comment, and the classification of the
\* snapshot's records with data in place of the reviewer's.
ShowsWrite(view, df_all_ratings, data) ==
  /\ RowOfNcode(view, data.ncode).my_rating = data.rating
  /\ RowOfNcode(view, data.ncode).my_comment = data.comment
  /\ RowOfNcode(view, data.ncode).classification
       = DisplayByPriority(determine_status(RecordsWith(df_all_ratings, data)))

\* Every pending write of session s is a record of the table, and the
\* reconciled table of the run c shows it.
ShowsWrites(s, view, df_all_ratings) ==
  \A ncode \in DOMAIN patches[s] :
    /\ StoreRows(store, ncode, login[s]) # {}
    /\ ShowsWrite(view, df_all_ratings, StoreData(store, ncode, login[s]))
ShowsWritesOf(s, c) == ShowsWrites(s, View(c, login[s], patches[s]), c.ca.val)

NoOtherRating(df_all_ratings, ncode, user_name) ==
  NoRatedRecord(WithoutUser(RowsOfNcode(df_all_ratings, ncode), user_name))

EntryKept(entry, entry_) == entry.hit => (entry_ = entry \/ (~entry_.hit /\ expiries' = expiries + 1))

\* C17: the memoized results are invalidated by time-to-live only.  A step
\* that is not an expiry leaves every filled entry of get_processed_novel_data,
\* load_user_ratings and load_all_ratings_table as it is, so a later call for
\* the same reviewer returns the table the earlier call returned; this holds
\* for the steps that write to the table too (a rating click, a comment edit,
\* a save of another reviewer), which only fill entries that were empty.
C17_ExpiryOnly ==
  [][/\ \A u \in LoginUsers :
          /\ EntryKept(cache_proc[u], cache_proc'[u])
          /\ EntryKept(cache_user[u], cache_user'[u])
     /\ EntryKept(cache_all, cache_all')
     /\ store' # store =>
          /\ \A u \in LoginUsers :
               /\ cache_proc[u].hit => cache_proc'[u] = cache_proc[u]
               /\ cache_user[u].hit => cache_user'[u] = cache_user[u]
          /\ cache_all.hit => cache_all' = cache_all]_vars

\* Two saves after the aggregate was memoized, no expiry: the memoized table
\* is still the one built before the saves and differs from a build from the
\* table as it is now.
C17_StaleAfterWrites ==
  \E s \in Sessions :
    /\ writes = 2
    /\ expiries = 0
    /\ cache_proc[login[s]].hit
    /\ cache_proc[login[s]].val = BuildOf(SelectAll(LegacyPool), login[s])
    /\ cache_proc[login[s]].val # BuildOf(SelectAll(store), login[s])


\* ------------------------------------- session specification, failed upserts
\* Mutant of upsert_raises: the pending write is recorded before the upsert
\* is attempted.
upsert_raises_patches_first(s, data, st) ==
  /\ store' = st
  /\ patches' = [patches EXCEPT ![s] = Put(@, data.ncode, PatchOf(data))]

\* save_rating and save_comment_only when execute() of the upsert raises: the
\* table is not written and the lines after the upsert are not reached.
upsert_raises(s, data, st) ==
  /\ store' = st
  /\ patches' = patches

\* The exception leaves save_rating, on_rating_button_click (or
\* save_comment_only, on_comment_change) and reaches the caller of the
\* callback: no function on the way catches it.
Raised(s, data) ==
  [kind |-> "raised", user_name |-> data.user_name, ncode |-> data.ncode,
   target |-> data.rating, cur |-> cur[s], flip |-> ~prev[s].flip]

\* A click on a rating button whose upsert raises.
ClickRatingRaises(s, target_rating) ==
  /\ sel[s] # NoSel
  /\ writes < MaxWrites
  /\ upsert_raises(s, on_rating_button_click(s, sel[s], login[s], target_rating, cur[s],
                                             RoleOf(login[s])), store)
  /\ prev' = [prev EXCEPT ![s] =
       Raised(s, on_rating_button_click(s, sel[s], login[s], target_rating, cur[s],
                                        RoleOf(login[s])))]
  /\ writes' = writes + 1
  /\ UNCHANGED << cache_user, cache_all, cache_proc, login, sel, cur, comment_area, expiries >>
  /\ UNCHANGED clfVars

\* A comment edit whose upsert raises: the comment area holds the typed text
\* and load_user_ratings was called before the upsert.
TypeCommentRaises(s, comment) ==
  /\ sel[s] # NoSel
  /\ writes < MaxWrites
  /\ comment # comment_area[s]
  /\ comment_area' = [comment_area EXCEPT ![s] = comment]
  /\ SetCaches(FillUser(Caches, store, login[s]))
  /\ upsert_raises(s, save_comment_only(Caches, store, sel[s], login[s], comment,
                                        RoleOf(login[s])), store)
  /\ prev' = [prev EXCEPT ![s] =
       Raised(s, save_comment_only(Caches, store, sel[s], login[s], comment,
                                   RoleOf(login[s])))]
  /\ writes' = writes + 1
  /\ UNCHANGED << login, sel, cur, expiries >>
  /\ UNCHANGED clfVars

NextUpsert ==
  \/ Next
  \/ \E s \in Sessions, t \in ButtonRatings : ClickRatingRaises(s, t)
  \/ \E s \in Sessions, comment \in TypedComments : TypeCommentRaises(s, comment)

SpecUpsert == Init /\ [][NextUpsert]_vars


\* ------------------------------------------------ claims on failed upserts
\* The step is a save of session s whose upsert raised.
RaisedStepOf(s) == prev'[s].flip # prev[s].flip /\ prev'[s].kind = "raised"

\* The pending write of ncode is the record the table holds for the reviewer.
PendingIsStored(st, patches_, ncode, user_name) ==
  /\ StoreRows(st, ncode, user_name) # {}
  /\ patches_[ncode] = PatchOf(StoreData(st, ncode, user_name))

\* C16: when the upsert of save_rating or save_comment_only raises, the
\* exception reaches the caller of the callback and the pending-write map of
\* the session, like the table, is left exactly as it was; after every step
\* each pending write of the session is a record whose upsert returned: the
\* record the table holds for the reviewer and the submission.
C16_FailedUpsertLeavesPatches ==
  [][\A s \in Sessions :
       /\ RaisedStepOf(s) => (patches' = patches /\ store' = store)
       /\ (prev'[s].flip # prev[s].flip /\ patches'[s] # patches[s])
            => prev'[s].kind \in {"rate", "comment"}
       /\ \A ncode \in DOMAIN patches'[s] :
            PendingIsStored(store', patches'[s], ncode, login[s])]_vars

\* A failed click on a rating button of n2 after a successful one: the
\* pending write of n2 is still that of the first click.
C16_RaisedAfterSave ==
  \E s \in Sessions :
    /\ prev[s].kind = "raised"
    /\ prev[s].ncode = "n2"
    /\ prev[s].target = R_BATSU
    /\ writes = 2
    /\ "n2" \in DOMAIN patches[s]
    /\ patches[s]["n2"].rating = R_MARU
    /\ StoreRating(store, "n2", login[s]) = R_MARU


\* ------------------------------------- claims on the classifier, continued
\* The rated records are all of users outside both groups, none of them NG.
OutsidersOnly(df) ==
  /\ InTeams(df) = {}
  /\ RatedBy(df, Outsiders) # {}
  /\ R_NG \notin Ratings(df)

\* C21 as stated: a submission whose only non-empty ratings come from users
\* in neither group, none of them NG, is Unclassified for the row-wise
\* classifier and for the batch build alike: is_unclassified is true, no
\* flag of either group is set and the display string is '-'.
C21_OutsiderOnlyIsUnclassified ==
  \A o \in Outcomes :
    OutsidersOnly(sub_df) =>
      /\ TrueFlags(o.flags) = {"is_unclassified"}
      /\ o.classification = DISP_NONE


\* ------------------------------------------ specification of two sessions
\* Two browser sessions of one server process: st.session_state (the pending
\* writes, the widget state) is per session, the st.cache_data entries and
\* the table are shared.  The first session is a1's, the second one is a1's
\* too (a second tab) or g1's.
TwoSessions == {"s1", "s2"}

InitTwo ==
  /\ sub_df = << >>
  /\ row_out = NotRun
  /\ batch_out = NotRun
  /\ InitQueryIdle
  /\ store = LegacyPool
  /\ cache_user = [u \in LoginUsers |-> Miss]
  /\ cache_all = Miss
  /\ cache_proc = [u \in LoginUsers |-> Miss]
  /\ login \in {l \in [TwoSessions -> LoginUsers] : l["s1"] = "a1"}
  /\ patches = [s \in TwoSessions |-> << >>]
  /\ sel = [s \in TwoSessions |-> NoSel]
  /\ cur = [s \in TwoSessions |-> None]
  /\ comment_area = [s \in TwoSessions |-> ""]
  /\ prev = [s \in TwoSessions |-> NoPrev]
  /\ writes = 0
  /\ expiries = 0

NextTwo ==
  \/ \E s \in TwoSessions : Rerun(s)
  \/ \E s \in TwoSessions, ncode \in Ncodes : Select(s, ncode)
  \/ \E s \in TwoSessions : Deselect(s)
  \/ \E s \in TwoSessions, t \in ButtonRatings : ClickRating(s, t)
  \/ \E s \in TwoSessions, comment \in TypedComments : TypeComment(s, comment)
  \/ \E u \in LoginUsers : ExpireUser(u)
  \/ ExpireAll
  \/ \E u \in LoginUsers : ExpireProc(u)

SpecTwo == InitTwo /\ [][NextTwo]_vars


\* ------------------------------------------------- claims on two sessions
\* The step is a save (a rating click or a comment edit) of session s.
SaveStepOf(s) == ClickStepOf(s) \/ CommentStepOf(s)

\* C22: with two sessions saving and reading interleaved, the pending-write
\* map of a session changes only in that session's own saves; a save of the
\* other session leaves the session's map, its widget state and every filled
\* cache entry it reads as they are, so its reconciled table is the same
\* before and after: the other reviewer's rating reaches it only when a later
\* run fetches the table.
C22_PendingWritesSessionLocal ==
  [][\A s \in TwoSessions :
       /\ patches'[s] # patches[s] => SaveStepOf(s)
       /\ \A t \in TwoSessions \ {s} :
            SaveStepOf(t) =>
              /\ patches'[s] = patches[s]
              /\ cur'[s] = cur[s]
              /\ comment_area'[s] = comment_area[s]
              /\ cache_proc[login[s]].hit => cache_proc'[login[s]] = cache_proc[login[s]]
              /\ cache_all.hit => cache_all' = cache_all]_vars

\* g1 in the second session has a pending NG on n1 and sees n1 as NG; a1 in
\* the first session, without pending writes and with the aggregate memoized
\* before, still sees n1 as approved by the admin team.
C22_OtherSessionUnseen ==
  /\ login["s2"] = "g1"
  /\ "n1" \in DOMAIN patches["s2"]
  /\ patches["s2"]["n1"].rating = R_NG
  /\ StoreRating(store, "n1", "g1") = R_NG
  /\ patches["s1"] = << >>
  /\ cache_proc["a1"].hit
  /\ RowOfNcode(View(Caches, "a1", patches["s1"]), "n1").classification = DISP_ADMIN_POS
  /\ RowOfNcode(View(FragmentRun(Caches, store, "g1", patches["s2"]), "g1", patches["s2"]),
                "n1").classification = DISP_NG


\* -------------------------------------------- claims on the pending writes
\* The rating and the comment a save step wrote, read from the step's inputs.
SavedRating(p) == IF p.kind = "rate" THEN NewRating(p.cur, p.target) ELSE p.cur
SavedComment(p, area) == IF p.kind = "rate" THEN area ELSE p.target

\* C23: the pending-write map has at most one entry per submission (it is a
\* map from submissions) and only grows.  No step removes an entry; a step
\* that is not a save of the session (a cache expiry, a run that rebuilds the
\* aggregate, a selection, a save of another reviewer) leaves the map as it
\* is; a save puts the saved rating and comment under its submission, over
\* the entry the submission had, and leaves the other entries alone.
C23_PendingWritesOnlyGrow ==
  [][\A s \in Sessions :
       /\ DOMAIN patches[s] \subseteq DOMAIN patches'[s]
       /\ DOMAIN patches'[s] \subseteq Ncodes
       /\ ~SaveStepOf(s) => patches'[s] = patches[s]
       /\ SaveStepOf(s) =>
            /\ DOMAIN patches'[s] = DOMAIN patches[s] \cup {prev'[s].ncode}
            /\ \A ncode \in DOMAIN patches[s] \ {prev'[s].ncode} :
                 patches'[s][ncode] = patches[s][ncode]
            /\ patches'[s][prev'[s].ncode].rating = SavedRating(prev'[s])
            /\ patches'[s][prev'[s].ncode].comment
                 = SavedComment(prev'[s], comment_area'[s])]_vars

\* Pending writes on both submissions in a run of the model in which a cache
\* entry expired and was filled again by a later run: both entries are there.
C23_KeptAcrossRebuild ==
  \E s \in Sessions :
    /\ DOMAIN patches[s] = {"n1", "n2"}
    /\ expiries = 1
    /\ cache_user[login[s]].hit /\ cache_all.hit /\ cache_proc[login[s]].hit
    /\ prev[s].kind = "rate"
    /\ patches[s][prev[s].ncode].rating = prev[s].target


\* ----------------------------------- claims on the reconciliation, continued
\* A table of an earlier time: the legacy records and a2's negative rating of
\* n2.  An aggregate built from it is what a session holds memoized while the
\* table has moved on to sub_df.
EarlierTable ==
  SelectAll(LegacyPool \cup
            {[ncode |-> "n2", user_name |-> "a2", rating |-> R_BATSU, comment |-> "",
              role |-> ROLE_ADMIN]})

\* The rows of the submissions without a pending write are the same in the
\* reconciled table as in the base table.
OthersUntouched(df, df_patched) ==
  /\ Len(df_patched) = Len(df)
  /\ \A i \in DOMAIN df :
       df[i].ncode \notin DOMAIN PendingOfCaller => df_patched[i] = df[i]
UntouchedFrom(df) ==
  OthersUntouched(df, apply_local_patches(df, Caller, PendingOfCaller, sub_df))

\* C24: apply_local_patches leaves every row of a submission without a
\* pending write untouched: all fields of the row are those of the base
\* table, be the base table a build from the table as it is or the aggregate
\* memoized from an earlier table.
C24_RowsWithoutPatchUntouched ==
  /\ UntouchedFrom(BuildOf(sub_df, Caller))
  /\ UntouchedFrom(BuildOf(EarlierTable, Caller))

\* The reconciled row of n1 was computed and differs from the memoized row of
\* n1, while n2, rejected by the admin team in the memoized aggregate, has no
\* pending write.
C24_PatchedNextToUntouched ==
  /\ row_out.done
  /\ "n2" \notin DOMAIN PendingOfCaller
  /\ RowOfNcode(BuildOf(EarlierTable, Caller), "n2").classification = DISP_ADMIN_NEG
  /\ row_out.classification = DISP_NG
  /\ RowOfNcode(BuildOf(EarlierTable, Caller), "n1").classification = DISP_ADMIN_POS


\* C25: apply_local_patches never changes the memoized aggregate.  A filled
\* entry of get_processed_novel_data keeps its value through every step that
\* does not expire it, runs that reconcile a non-empty pending map included;
\* an entry filled by a step holds the build from the tables the step fetched,
\* without any pending write.  So a second session of the same reviewer reads
\* the aggregate without the first session's pending writes.
C25_AggregateNotMutated ==
  [][\A u \in LoginUsers :
       /\ (cache_proc[u].hit /\ cache_proc'[u].hit) => cache_proc'[u] = cache_proc[u]
       /\ (~cache_proc[u].hit /\ cache_proc'[u].hit) =>
            cache_proc'[u].val
              = get_processed_novel_data(u, cache_user'[u].val, cache_all'.val)]_vars

\* Two sessions of a1.  The first has a pending positive rating on n2 and its
\* reconciled table shows it; the second, which saved nothing and has n2
\* selected, reads the memoized aggregate, in which a1 has no rating on n2.
C25_SecondTabWithoutOverlay ==
  /\ login["s2"] = "a1"
  /\ "n2" \in DOMAIN patches["s1"]
  /\ patches["s1"]["n2"].rating = R_MARU
  /\ patches["s2"] = << >>
  /\ prev["s2"].kind = "none"
  /\ sel["s2"] = "n2"
  /\ cache_proc["a1"].hit
  /\ RowOfNcode(View(Caches, "a1", patches["s2"]), "n2").my_rating = None
  /\ RowOfNcode(View(FragmentRun(Caches, store, "a1", patches["s1"]), "a1", patches["s1"]),
                "n2").my_rating = R_MARU


\* ------------------------------------------------------ query specification
\* One call of get_filtered_sorted_data over a catalog of three submissions
\* and an empty rating store.  A cell that may be null is << >> when it is
\* null (NaN, NaT, None) and << v >> when it holds v; the optional date
\* arguments are written the same way.
Null == << >>
IsNull(c) == c = Null
Val(c) == c[1]

\* Timestamps count half days; a date argument d names the day d.
DayLength == 2
to_datetime(d) == d * DayLength
\* pd.to_datetime(d) + pd.Timedelta(days=1) - pd.Timedelta(seconds=1): the
\* last instant of the day d
EndOfDay(d) == to_datetime(d) + DayLength - 1

GENRE_ALL == "U+3059 U+3079 U+3066"
\* Tags of the keyword column: the contest tag in half-width digits inside a
\* longer tag, the contest tag in full-width digits, and another tag.
TAG_HALF_LONG == "x U+30CD U+30C8 U+30B3 U+30F3 14 y"
TAG_FULL == "U+30CD U+30C8 U+30B3 U+30F3 U+FF11 U+FF14"
TAG_OTHER == "z"
\* str.contains("ネトコン14", case=False) and str.contains("ネトコン１４", case=False)
ContainsHalf(tag) == tag = TAG_HALF_LONG
ContainsFull(tag) == tag = TAG_FULL

\* The columns of the catalog next to ncode, as load_master_data leaves them:
\* the date columns may be NaT, keyword may be None, global_point was filled
\* with 0 where it was missing.
CatalogCells ==
  { [genre |-> "G1", keyword |-> << {TAG_HALF_LONG} >>, general_firstup |-> << 2 >>,
     general_lastup |-> Null, global_point |-> << 0 >>],
    [genre |-> "G2", keyword |-> Null, general_firstup |-> Null,
     general_lastup |-> << 3 >>, global_point |-> << 5 >>],
    [genre |-> "G1", keyword |-> << {TAG_FULL, TAG_OTHER} >>, general_firstup |-> << 4 >>,
     general_lastup |-> << 5 >>, global_point |-> << 9 >>] }

QueryNcodes == << "n1", "n2", "n3" >>

\* The fields the build adds to a catalog row nobody rated.
UnratedFields == [k \in DOMAIN BuildFrom(<< >>, << >>)[1] \ {"ncode"} |-> BuildFrom(<< >>, << >>)[1][k]]

\* The memoized aggregate over the catalog whose i-th row has the cells c[i].
ProcessedTable(c) ==
  [i \in DOMAIN QueryNcodes |-> [ncode |-> QueryNcodes[i]] @@ c[i] @@ UnratedFields]

QueryTables == {ProcessedTable(c) : c \in [DOMAIN QueryNcodes -> CatalogCells]}
QueryColumns == DOMAIN ProcessedTable([i \in DOMAIN QueryNcodes |-> CHOOSE x \in CatalogCells : TRUE])[1]

\* search_ncodes_by_duckdb: not called, returned None (no parquet file), or
\* returned a list of ncodes.
NoSearch == [entered |-> FALSE, found |-> FALSE, ncodes |-> {}]
SearchResults ==
  { [entered |-> TRUE, found |-> FALSE, ncodes |-> {}],
    [entered |-> TRUE, found |-> TRUE, ncodes |-> {}],
    [entered |-> TRUE, found |-> TRUE, ncodes |-> {"n1", "n3"}] }

\* The arguments with every filter off.
NoFilter ==
  [genre |-> GENRE_ALL, filter_netcon14 |-> FALSE, search |-> NoSearch,
   min_global |-> 0, max_global |-> 0,
   firstup_from |-> Null, firstup_to |-> Null, lastup_from |-> Null, lastup_to |-> Null]

\* One filter set to a value.
FilterSettings ==
  {<< "genre", "G1" >>, << "filter_netcon14", TRUE >>,
   << "min_global", 5 >>, << "max_global", 9 >>,
   << "firstup_from", << 1 >> >>, << "firstup_from", << 2 >> >>, << "firstup_to", << 1 >> >>,
   << "lastup_from", << 2 >> >>, << "lastup_to", << 1 >> >>, << "lastup_to", << 2 >> >>}
  \cup {<< "search", r >> : r \in SearchResults}

WithSetting(a, f) == [a EXCEPT ![f[1]] = f[2]]

\* At most two filters are on in one call.
FilterArgs ==
  {NoFilter} \cup {WithSetting(NoFilter, f) : f \in FilterSettings}
  \cup {WithSetting(WithSetting(NoFilter, f), g) : f, g \in FilterSettings}

\* sort_map.get(sort_col_label): no column, a column of the table, or a
\* column the catalog does not have.
SortColumns == {"", "general_firstup", "general_lastup", "global_point", "weekly_unique"}

QueryArgs ==
  {a @@ [sort_col |-> c, is_ascending |-> b] :
     a \in FilterArgs, c \in SortColumns, b \in BOOLEAN}

\* The pending writes of the session that calls.
QueryPatches ==
  { << >>,
    [n \in {"n1"} |-> [rating |-> R_MARU, comment |-> "c1", role |-> ROLE_ADMIN]] }

\* The objects of one call: the table get_processed_novel_data returned, the
\* table apply_local_patches returned, the table the name df is bound to, and
\* which object that is.
Objects(base, patches_) ==
  [done |-> TRUE,
   df_base |-> base,
   df_patched |-> apply_local_patches(base, "a1", patches_, << >>),
   df |-> apply_local_patches(base, "a1", patches_, << >>),
   ref |-> IF DOMAIN patches_ = {} THEN "df_base" ELSE "df_patched"]

\* if df is df_base: df = df.copy()
CopyIfBase(q) == IF q.ref = "df_base" THEN [q EXCEPT !.ref = "copy"] ELSE q

\* Mutant of Rebind: the new table is written into the object df names.
Rebind_in_place(q, table) ==
  IF q.ref = "df_patched" THEN [q EXCEPT !.df = table, !.df_patched = table]
  ELSE IF q.ref = "df_base" THEN [q EXCEPT !.df = table, !.df_base = table, !.df_patched = table]
  ELSE [q EXCEPT !.df = table]

\* df = <a new table>: the name is bound to a new object, the object it named
\* is left as it is.
Rebind(q, table) == [q EXCEPT !.df = table, !.ref = "new"]

\* df = df[mask]
Mask(q, keep(_)) == Rebind(q, SelectSeq(q.df, keep))

\* A comparison with NaT is False.
NotBefore(c, t) == ~IsNull(c) /\ Val(c) >= t
NotAfter(c, t) == ~IsNull(c) /\ Val(c) <= t

FilterFirstupFrom(q, a) ==
  IF "general_firstup" \in QueryColumns /\ ~IsNull(a.firstup_from)
  THEN Mask(q, LAMBDA r : NotBefore(r.general_firstup, to_datetime(Val(a.firstup_from))))
  ELSE q

FilterFirstupTo(q, a) ==
  IF "general_firstup" \in QueryColumns /\ ~IsNull(a.firstup_to)
  THEN Mask(q, LAMBDA r : NotAfter(r.general_firstup, EndOfDay(Val(a.firstup_to))))
  ELSE q

FilterLastupFrom(q, a) ==
  IF "general_lastup" \in QueryColumns /\ ~IsNull(a.lastup_from)
  THEN Mask(q, LAMBDA r : NotBefore(r.general_lastup, to_datetime(Val(a.lastup_from))))
  ELSE q

FilterLastupTo(q, a) ==
  IF "general_lastup" \in QueryColumns /\ ~IsNull(a.lastup_to)
  THEN Mask(q, LAMBDA r : NotAfter(r.general_lastup, EndOfDay(Val(a.lastup_to))))
  ELSE q

FilterGenre(q, a) ==
  IF a.genre # GENRE_ALL THEN Mask(q, LAMBDA r : r.genre = a.genre) ELSE q

\* df["keyword"].fillna(""): a missing keyword has no tag
Tags(c) == IF IsNull(c) THEN {} ELSE Val(c)
mask_netcon14(r) == \E t \in Tags(r.keyword) : ContainsHalf(t) \/ ContainsFull(t)

FilterNetcon14(q, a) ==
  IF a.filter_netcon14 /\ "keyword" \in QueryColumns THEN Mask(q, mask_netcon14) ELSE q

FilterSearch(q, a) ==
  IF a.search.entered /\ a.search.found
  THEN Mask(q, LAMBDA r : r.ncode \in a.search.ncodes)
  ELSE q

FilterMinGlobal(q, a) ==
  IF a.min_global > 0 THEN Mask(q, LAMBDA r : Val(r.global_point) >= a.min_global) ELSE q

FilterMaxGlobal(q, a) ==
  IF a.max_global > 0 THEN Mask(q, LAMBDA r : Val(r.global_point) < a.max_global) ELSE q

\* A stable ascending sort of rows without a null in the column `by`.
InsertByKey(sorted, x, by) ==
  LET k == Cardinality({i \in DOMAIN sorted : Val(sorted[i][by]) <= Val(x[by])})
  IN SubSeq(sorted, 1, k) \o << x >> \o SubSeq(sorted, k + 1, Len(sorted))

RECURSIVE StableSort(_, _)
StableSort(s, by) ==
  IF s = << >> THEN << >>
  ELSE InsertByKey(StableSort(SubSeq(s, 1, Len(s) - 1), by), s[Len(s)], by)

\* Mutant of PlaceNulls: a null counts as the largest value, so a descending
\* sort starts with the nulls.
PlaceNulls_as_largest(sorted, nulls, ascending) ==
  IF ascending THEN sorted \o nulls ELSE nulls \o sorted

\* na_position='last'
PlaceNulls(sorted, nulls, ascending) == sorted \o nulls

\* df.sort_values(by=by, ascending=ascending, na_position='last'): the rows
\* with a value are sorted (a descending sort reverses before and after the
\* stable sort), the rows with a null are set apart in their order.
sort_values(df, by, ascending) ==
  PlaceNulls(
    IF ascending THEN StableSort(SelectSeq(df, LAMBDA r : ~IsNull(r[by])), by)
    ELSE Reverse(StableSort(Reverse(SelectSeq(df, LAMBDA r : ~IsNull(r[by]))), by)),
    SelectSeq(df, LAMBDA r : IsNull(r[by])),
    ascending)

SortStep(q, a) ==
  IF a.sort_col # "" /\ a.sort_col \in QueryColumns
  THEN Rebind(q, sort_values(q.df, a.sort_col, a.is_ascending))
  ELSE q

\* get_filtered_sorted_data(user_name, ...), as a function of the table
\* get_processed_novel_data returned and of the session's pending writes.
get_filtered_sorted_data(base, patches_, a) ==
  SortStep(
    FilterMaxGlobal(
      FilterMinGlobal(
        FilterSearch(
          FilterNetcon14(
            FilterGenre(
              FilterLastupTo(
                FilterLastupFrom(
                  FilterFirstupTo(
                    FilterFirstupFrom(CopyIfBase(Objects(base, patches_)), a), a), a), a), a), a), a), a), a), a)

InitQuery ==
  /\ sub_df = << >>
  /\ row_out = NotRun
  /\ batch_out = NotRun
  /\ store = {}
  /\ cache_user = [u \in LoginUsers |-> Miss]
  /\ cache_all = Miss
  /\ cache_proc = [u \in LoginUsers |-> Miss]
  /\ login = [s \in Sessions |-> "a1"]
  /\ patches \in [Sessions -> QueryPatches]
  /\ sel = [s \in Sessions |-> NoSel]
  /\ cur = [s \in Sessions |-> None]
  /\ comment_area = [s \in Sessions |-> ""]
  /\ prev = [s \in Sessions |-> NoPrev]
  /\ writes = 0
  /\ expiries = 0
  /\ df_base \in QueryTables
  /\ query \in QueryArgs
  /\ InitRunIdle
  /\ df_out = NotRun
  /\ fault = "none"
  /\ cache_novel = << >>

RunQuery ==
  /\ ~df_out.done
  /\ df_out' = get_filtered_sorted_data(df_base, PendingOfCaller, query)
  /\ UNCHANGED << sub_df, row_out, batch_out, df_base, query, fault, cache_novel, runVars >>
  /\ UNCHANGED << store, cache_user, cache_all, cache_proc, login, patches, sel, cur,
                  comment_area, prev, writes, expiries >>

NextQuery == RunQuery

SpecQuery == InitQuery /\ [][NextQuery]_vars

\* ------------------------------------------------------ claims on the query
\* C26: get_filtered_sorted_data does not mutate its input.  After the call
\* the table get_processed_novel_data returned is the table it was before
\* the call, and the table apply_local_patches returned is the overlay of the
\* session's pending writes on it, row for row in the same order; this holds
\* also when the pending map is empty and both names are one object.
C26_QueryLeavesInputs ==
  df_out.done =>
    /\ df_out.df_base = df_base
    /\ df_out.df_patched = apply_local_patches(df_base, "a1", PendingOfCaller, << >>)
    /\ DOMAIN PendingOfCaller = {} => df_out.df_patched = df_base

\* A call of a session with a pending write that filtered one row out and
\* sorted the two others by descending global_point.
C26_FilteredAndSortedPatched ==
  /\ df_out.done
  /\ DOMAIN PendingOfCaller # {}
  /\ df_out.df # df_out.df_patched
  /\ Len(df_out.df) = 2
  /\ query.sort_col = "global_point"
  /\ ~query.is_ascending
  /\ Val(df_out.df[1].global_point) > Val(df_out.df[2].global_point)


\* The call sorted its table by a column.
Sorted == df_out.done /\ query.sort_col # "" /\ query.sort_col \in QueryColumns

\* In df no row with a null in the column `by` stands before a row with a value.
NullsAfterValues(df, by) ==
  \A i, j \in DOMAIN df : (i < j /\ IsNull(df[i][by])) => IsNull(df[j][by])

\* The rows of df with a value in the column `by` stand in the order asked for.
ValuesInOrder(df, by, ascending) ==
  \A i, j \in DOMAIN df :
    (i < j /\ ~IsNull(df[i][by]) /\ ~IsNull(df[j][by])) =>
      IF ascending THEN Val(df[i][by]) <= Val(df[j][by])
      ELSE Val(df[i][by]) >= Val(df[j][by])

\* C30: in the table get_filtered_sorted_data returns after a sort, every row
\* whose sort field is null comes after all rows that have a value, in an
\* ascending and in a descending sort alike; the rows with a value stand in
\* the order asked for.
C30_NullsSortLast ==
  Sorted =>
    /\ NullsAfterValues(df_out.df, query.sort_col)
    /\ ValuesInOrder(df_out.df, query.sort_col, query.is_ascending)

\* A descending sort by the last-update date of a table whose first row has
\* no date and whose two other rows have different dates: the dated rows come
\* first, newest first, the row without a date comes last.
C30_NullLastWhenDescending ==
  /\ Sorted
  /\ query.sort_col = "general_lastup"
  /\ ~query.is_ascending
  /\ Len(df_out.df) = 3
  /\ IsNull(df_base[1].general_lastup)
  /\ df_out.df[3].ncode = "n1"
  /\ Val(df_out.df[1].general_lastup) > Val(df_out.df[2].general_lastup)


\* -------------------------------------------- reviewers panel specification
\* The panel 評価者一覧 of the selected row, rendered by one session over a
\* rating store whose reads may fail.
PanelPool ==
  { [ncode |-> "n1", user_name |-> "g1", rating |-> R_MARU, comment |-> "c0", role |-> ROLE_GENERAL],
    [ncode |-> "n1", user_name |-> "a1", rating |-> "", comment |-> None, role |-> ROLE_ADMIN],
    [ncode |-> "n2", user_name |-> "a2", rating |-> R_BATSU, comment |-> None, role |-> ROLE_ADMIN] }

Faults == {"none", "ratings_read"}

\* supabase.table("user_ratings").select("*").eq("ncode", ncode).execute()
SelectNcode(st, ncode) == RowsOfNcode(SetToSeq(st), ncode)

\* The body of load_novel_ratings_all: the rows of the ncode, or an empty
\* DataFrame when the read raised (except Exception: return pd.DataFrame());
\* `raised` records that the except branch ran.
read_novel_ratings(st, ncode, fault_) ==
  IF fault_ = "ratings_read" THEN [raised |-> TRUE, val |-> << >>]
  ELSE [raised |-> FALSE, val |-> SelectNcode(st, ncode)]

\* load_novel_ratings_all(ncode) under st.cache_data: the cached value, or
\* what the body returns.
load_novel_ratings_all(cn, st, ncode, fault_) ==
  IF cn[ncode].hit THEN [raised |-> FALSE, val |-> cn[ncode].val]
  ELSE read_novel_ratings(st, ncode, fault_)

\* fillna("").astype(str) of a rating or comment cell
CellText(v) == IF v = None THEN "" ELSE v
\* (r_check != "") | (c_check != "")
HasRatingOrComment(r) == CellText(r.rating) # "" \/ CellText(r.comment) # ""

\* other_ratings_df after the pending write of the row, if there is one, is
\* put in the place of the caller's record or appended.
WithPendingWrite(other_ratings_df, ncode, user_name, patches_) ==
  IF ncode \in DOMAIN patches_
  THEN ReplaceOrAppend(other_ratings_df, user_name, NewRow(ncode, user_name, patches_[ncode]))
  ELSE other_ratings_df

\* What the panel shows: the message まだ評価はありません (info), or the rows
\* with a rating or a comment.
Panel(read, ncode, user_name, patches_) ==
  [done |-> TRUE, ncode |-> ncode, raised |-> read.raised,
   info |-> SelectSeq(WithPendingWrite(read.val, ncode, user_name, patches_),
                      HasRatingOrComment) = << >>,
   rows |-> SelectSeq(WithPendingWrite(read.val, ncode, user_name, patches_),
                      HasRatingOrComment)]

InitPanel ==
  /\ sub_df = << >>
  /\ row_out = NotRun
  /\ batch_out = NotRun
  /\ store \in SUBSET PanelPool
  /\ cache_user = [u \in LoginUsers |-> Miss]
  /\ cache_all = Miss
  /\ cache_proc = [u \in LoginUsers |-> Miss]
  /\ login = [s \in Sessions |-> "a1"]
  /\ patches \in [Sessions -> QueryPatches]
  /\ sel \in [Sessions -> Ncodes]
  /\ cur = [s \in Sessions |-> None]
  /\ comment_area = [s \in Sessions |-> ""]
  /\ prev = [s \in Sessions |-> NoPrev]
  /\ writes = 0
  /\ expiries = 0
  /\ df_base = << >>
  /\ query = << >>
  /\ df_out = NotRun
  /\ InitRunIdle
  /\ fault \in Faults
  /\ cache_novel = [n \in Ncodes |-> Miss]

\* One render of the panel for the selected row.  The value the function
\* returned is memoized, the empty table of a failed read included.
RenderPanel(s) ==
  /\ df_out' = Panel(load_novel_ratings_all(cache_novel, store, sel[s], fault),
                     sel[s], login[s], patches[s])
  /\ cache_novel' =
       [cache_novel EXCEPT ![sel[s]] =
          [hit |-> TRUE, val |-> load_novel_ratings_all(cache_novel, store, sel[s], fault).val]]
  /\ UNCHANGED << sub_df, row_out, batch_out, df_base, query, fault, runVars >>
  /\ UNCHANGED << store, cache_user, cache_all, cache_proc, login, patches, sel, cur,
                  comment_area, prev, writes, expiries >>

\* The rating store becomes unreachable, or reachable again.
StoreFault(f) ==
  /\ fault # f
  /\ fault' = f
  /\ UNCHANGED << sub_df, row_out, batch_out, df_base, query, df_out, cache_novel, runVars >>
  /\ UNCHANGED << store, cache_user, cache_all, cache_proc, login, patches, sel, cur,
                  comment_area, prev, writes, expiries >>

\* The ttl of an entry of load_novel_ratings_all runs out.
ExpireNovel(n) ==
  /\ cache_novel[n].hit
  /\ expiries < MaxExpiries
  /\ expiries' = expiries + 1
  /\ cache_novel' = [cache_novel EXCEPT ![n] = Miss]
  /\ UNCHANGED << sub_df, row_out, batch_out, df_base, query, df_out, fault, runVars >>
  /\ UNCHANGED << store, cache_user, cache_all, cache_proc, login, patches, sel, cur,
                  comment_area, prev, writes >>

\* Another row is selected.
SelectPanelRow(s, ncode) ==
  /\ sel[s] # ncode
  /\ sel' = [sel EXCEPT ![s] = ncode]
  /\ UNCHANGED << sub_df, row_out, batch_out, qryVars >>
  /\ UNCHANGED << store, cache_user, cache_all, cache_proc, login, patches, cur,
                  comment_area, prev, writes, expiries >>

NextPanel ==
  \/ \E s \in Sessions : RenderPanel(s)
  \/ \E f \in Faults : StoreFault(f)
  \/ \E n \in Ncodes : ExpireNovel(n)
  \/ \E s \in Sessions, ncode \in Ncodes : SelectPanelRow(s, ncode)

SpecPanel == InitPanel /\ [][NextPanel]_vars

\* --------------------------------------------- claims on the reviewers panel
\* The read of the last render raised.
ReadFailed == df_out.done /\ df_out.raised
\* The store holds a rating or a comment for the submission.
StoredFor(ncode) == \E r \in store : r.ncode = ncode /\ HasRatingOrComment(r)

\* C27: a failure of a rating-store read surfaces as an explicit failure and
\* is never turned into a silent empty result: when the read of
\* load_novel_ratings_all raised for a submission the store holds a rating
\* of, the panel is not the message that the submission has no ratings yet.
C27_FailedReadIsNotNoRatings ==
  (ReadFailed /\ StoredFor(df_out.ncode)) => ~df_out.info


\* ------------------------------------------------- script run specification
\* One session runs the script from its top, and reruns the fragment
\* main_content; the parquet files of the catalog may be missing, unreadable
\* or without rows, and the st.cache_data entries expire.
CatalogFaults == {"none", "no_files", "read_error", "no_rows"}

\* The body of load_master_data: the catalog, or an empty DataFrame when
\* there is no file, when the read raised, or when the files hold no row.
read_master(fault_) == IF fault_ = "none" THEN df_master ELSE << >>

\* load_master_data() under st.cache_data
load_master_data(cm, fault_) == IF cm.hit THEN cm.val ELSE read_master(fault_)

Loaded(cm, fault_) == [loaded |-> TRUE, val |-> load_master_data(cm, fault_)]
Cached(cm, fault_) == [hit |-> TRUE, val |-> load_master_data(cm, fault_)]

\* Mutant of ScriptStops: the script goes on with an empty catalog.
ScriptStops_never(df) == FALSE

\* if df_master.empty: st.error(...); st.stop()
ScriptStops(df) == df = << >>

\* get_processed_novel_data(user_name) during the run: a memoized table, or a
\* build that starts with a call of load_master_data.  The build of a
\* catalog without rows ends in an exception (pd.merge on the missing column
\* ncode, or the assignment of what df.apply(..., axis=1) gives for a table
\* without rows), so no table is returned.
CallBuild(cp, cm, fault_) ==
  IF cp.hit THEN [raised |-> FALSE, master |-> master, cm |-> cm, cp |-> cp]
  ELSE IF load_master_data(cm, fault_) = << >>
       THEN [raised |-> TRUE, master |-> Loaded(cm, fault_), cm |-> Cached(cm, fault_), cp |-> cp]
       ELSE [raised |-> FALSE, master |-> Loaded(cm, fault_), cm |-> Cached(cm, fault_),
             cp |-> [hit |-> TRUE, val |-> BuildFrom(<< >>, << >>)]]

RunEnded == pc \in {"idle", "stopped", "raised", "done"}

InitRun ==
  /\ sub_df = << >>
  /\ row_out = NotRun
  /\ batch_out = NotRun
  /\ InitSessionIdle
  /\ df_base = << >>
  /\ query = << >>
  /\ df_out = NotRun
  /\ InitRunIdle
  /\ fault \in CatalogFaults
  /\ cache_novel = << >>

RunFrame ==
  /\ UNCHANGED << sub_df, row_out, batch_out, df_base, query, df_out, cache_novel >>
  /\ UNCHANGED listVars
  /\ UNCHANGED << store, cache_user, cache_all, login, patches, sel, cur,
                  comment_area, prev, writes, expiries >>

\* The script starts from its top: a first visit, a reload, or an
\* interaction outside the fragment.
StartRun ==
  /\ RunEnded
  /\ pc' = "load"
  /\ page' = {}
  /\ master' = NotLoaded
  /\ UNCHANGED << fault, cache_master, cache_proc >>
  /\ RunFrame

\* df_master = load_master_data()
LoadMaster ==
  /\ pc = "load"
  /\ master' = Loaded(cache_master, fault)
  /\ cache_master' = Cached(cache_master, fault)
  /\ pc' = "check"
  /\ UNCHANGED << fault, page, cache_proc >>
  /\ RunFrame

CheckMaster ==
  /\ pc = "check"
  /\ IF ScriptStops(master.val)
     THEN pc' = "stopped" /\ page' = page \cup {"error"}
     ELSE pc' = "export" /\ page' = page \cup {"sidebar"}
  /\ UNCHANGED << fault, master, cache_master, cache_proc >>
  /\ RunFrame

\* What a step that needs the enriched table does: it goes on with `next`
\* and puts `shown` on the page, or ends in the exception of the build.
WithBuild(b, next, shown) ==
  /\ master' = b.master
  /\ cache_master' = b.cm
  /\ cache_proc' = [cache_proc EXCEPT !["a1"] = b.cp]
  /\ IF b.raised
     THEN pc' = "raised" /\ page' = page \cup {"exception"}
     ELSE pc' = next /\ page' = page \cup shown

\* df_export_base = get_processed_novel_data(user_name) and the export
ExportSection ==
  /\ pc = "export"
  /\ WithBuild(CallBuild(cache_proc["a1"], cache_master, fault), "content", {"enriched", "export"})
  /\ UNCHANGED fault
  /\ RunFrame

\* main_content(user_name): the list and the rating buttons
MainContent ==
  /\ pc = "content"
  /\ WithBuild(CallBuild(cache_proc["a1"], cache_master, fault), "done",
               {"enriched", "list", "rating"})
  /\ UNCHANGED fault
  /\ RunFrame

\* An interaction inside the fragment runs main_content alone.
FragmentRerun ==
  /\ pc = "done"
  /\ WithBuild(CallBuild(cache_proc["a1"], cache_master, fault), "done",
               {"enriched", "list", "rating"})
  /\ UNCHANGED fault
  /\ RunFrame

ExpireMaster ==
  /\ cache_master.hit
  /\ cache_master' = [hit |-> FALSE, val |-> << >>]
  /\ UNCHANGED << fault, pc, page, master, cache_proc >>
  /\ RunFrame

ExpireProcOfRun ==
  /\ cache_proc["a1"].hit
  /\ cache_proc' = [cache_proc EXCEPT !["a1"] = Miss]
  /\ UNCHANGED << fault, pc, page, master, cache_master >>
  /\ RunFrame

\* The parquet files change on disk.
FilesChange(f) ==
  /\ fault # f
  /\ fault' = f
  /\ UNCHANGED << pc, page, master, cache_master, cache_proc >>
  /\ RunFrame

NextRun ==
  \/ StartRun
  \/ LoadMaster
  \/ CheckMaster
  \/ ExportSection
  \/ MainContent
  \/ FragmentRerun
  \/ ExpireMaster
  \/ ExpireProcOfRun
  \/ \E f \in CatalogFaults : FilesChange(f)

SpecRun == InitRun /\ [][NextRun]_vars

\* ------------------------------------------------- claims on the script run
\* load_master_data gave the run a catalog without rows.
NoCatalog == master.loaded /\ master.val = << >>
\* What a run produces from the catalog.
Produced == {"enriched", "export", "list", "rating"}

Orderings(df) == {[i \in DOMAIN df |-> df[p[i]]] : p \in Permutations(DOMAIN df)}

RowOutcomeOf(df) == RowOutcome(determine_status(df))
BatchOutcomeOf(df) ==
  Outcome(RowOfNcode(get_processed_novel_data("a1", RowsOfUser(df, "a1"), df), "n1"))

\* Both classifiers give for the records in the order df what they give for
\* them in the order reference.
SameClassification(df, status, batch) ==
  /\ determine_status(df) = status
  /\ calculate_novel_status(df) = batch

SameInEveryOrder(reference, status, batch) ==
  \A df \in Orderings(reference) : SameClassification(df, status, batch)

\* C29: the classification of a submission is a function of the set of its
\* rating records.  The outcomes computed are the outcomes of classifying the
\* same records again, and determine_status and calculate_novel_status give
\* the same flags for the records in every order.
C29_OrderIndependent ==
  /\ row_out.done => row_out = RowOutcomeOf(sub_df)
  /\ batch_out.done => batch_out = BatchOutcomeOf(sub_df)
  /\ (row_out.done /\ batch_out.done) =>
       SameInEveryOrder(sub_df, determine_status(sub_df), calculate_novel_status(sub_df))

\* Both classifiers ran on records of the Primary group that start with a
\* negative rating and hold a positive one later: the submission is approved
\* by the Primary group, as it is for the records in reverse order.
C29_NegativeBeforePositive ==
  /\ row_out.done
  /\ batch_out.done
  /\ Len(sub_df) >= 2
  /\ sub_df[1].user_name \in ADMIN_TEAM_USERS
  /\ sub_df[1].rating = R_BATSU
  /\ \E i \in DOMAIN sub_df : sub_df[i].user_name \in ADMIN_TEAM_USERS /\ IsPositive(sub_df[i].rating)
  /\ row_out.flags.is_admin_evaluated
  /\ batch_out.flags.is_admin_evaluated


\* --------------------------------- claims on the classifier, the two variants
\* C31 as stated: for every record set of one submission the five flags of
\* calculate_novel_status together with the is_unclassified defaulting of the
\* build are the six flags determine_status gives for the same records.
C31_BatchEqualsRowWise ==
  (row_out.done /\ batch_out.done) => batch_out.flags = row_out.flags


\* -------------------------------- session specification, entries that expire
\* The session specification with cache entries that run out any number of
\* times: the ttl of an entry is counted from the call that stored it, the
\* three kinds of entry are stored by different calls.
Ttl(cu, ca, cp) ==
  /\ cache_user' = cu
  /\ cache_all' = ca
  /\ cache_proc' = cp
  /\ UNCHANGED << store, login, patches, sel, cur, comment_area, prev, writes, expiries >>
  /\ UNCHANGED clfVars

TtlUser(user_name) ==
  /\ cache_user[user_name].hit
  /\ Ttl([cache_user EXCEPT ![user_name] = Miss], cache_all, cache_proc)

TtlAll ==
  /\ cache_all.hit
  /\ Ttl(cache_user, Miss, cache_proc)

TtlProc(user_name) ==
  /\ cache_proc[user_name].hit
  /\ Ttl(cache_user, cache_all, [cache_proc EXCEPT ![user_name] = Miss])

NextTtl ==
  \/ \E s \in Sessions : Rerun(s)
  \/ \E u \in LoginUsers, ncode \in Ncodes, r \in OtherRatings : OtherSave(u, ncode, r)
  \/ \E s \in Sessions, ncode \in Ncodes : Select(s, ncode)
  \/ \E s \in Sessions : Deselect(s)
  \/ \E s \in Sessions, t \in ButtonRatings : ClickRating(s, t)
  \/ \E s \in Sessions, comment \in TypedComments : TypeComment(s, comment)
  \/ \E u \in LoginUsers : TtlUser(u)
  \/ TtlAll
  \/ \E u \in LoginUsers : TtlProc(u)

SpecTtl == Init /\ [][NextTtl]_vars

\* ------------------------------------------- claims on the aggregate build
\* The rating of user_name for ncode in the table df_all_ratings, None when
\* the table has no record of theirs.
RatingIn(df_all_ratings, ncode, user_name) ==
  IF RowsOfUser(RowsOfNcode(df_all_ratings, ncode), user_name) = << >> THEN None
  ELSE RowsOfUser(RowsOfNcode(df_all_ratings, ncode), user_name)[1].rating

\* In every row of the aggregate df, my_rating is the rating the caller has
\* in df_all_ratings.
MyRatingsFrom(df, df_all_ratings, user_name) ==
  \A i \in DOMAIN df : df[i].my_rating = RatingIn(df_all_ratings, df[i].ncode, user_name)

\* C32 as stated: each aggregate build reflects a single state of the rating
\* store.  When a run stores a new aggregate for a reviewer, my_rating of
\* every row is the reviewer's rating in the all-ratings table the
\* classification of the row was computed from.
C32_BuildFromOneSnapshot ==
  [][\A u \in LoginUsers :
       (~cache_proc[u].hit /\ cache_proc'[u].hit) =>
         MyRatingsFrom(cache_proc'[u].val, cache_all'.val, u)]_vars


\* ------------------------------ session specification, the login name changes
\* The reviewer types another registered name into the sidebar field
\* ユーザー名 (the password is the same for all): the script runs from its top
\* as that reviewer, with the st.session_state of the session as it is.
ChangeShow(s, user_name, c) ==
  /\ SetCaches(c)
  /\ IF sel[s] = NoSel THEN UNCHANGED cur
     ELSE ShowRating(s, RowOfNcode(View(c, user_name, patches[s]), sel[s]))

ChangeLogin(s, user_name) ==
  /\ login[s] # user_name
  /\ login' = [login EXCEPT ![s] = user_name]
  /\ ChangeShow(s, user_name, FullRun(Caches, store, user_name, patches[s]))
  /\ UNCHANGED << store, patches, sel, comment_area, prev, writes, expiries >>
  /\ UNCHANGED clfVars

NextLogin ==
  \/ Next
  \/ \E s \in Sessions, u \in LoginUsers : ChangeLogin(s, u)

SpecLogin == Init /\ [][NextLogin]_vars

\* ------------------------------------------ claims on the owner of a write
\* C33 as stated: every pending write reconcile applies for the reviewer who
\* is logged in was created by a save of that reviewer, also after the login
\* name of the session changed: the entry the session's last save left in
\* the pending map was saved under the name the session is logged in with.
C33_PendingWriteOfCaller ==
  \A s \in Sessions :
    (prev[s].kind # "none" /\ prev[s].ncode \in DOMAIN patches[s]) =>
      prev[s].user_name = login[s]


\* ------------------------------------- claims on pending writes and the store
\* C34: with one session per reviewer, after every save of the session for
\* a submission the pending entry of the submission holds the rating and the
\* comment of the store record of (submission, caller), and it stays so
\* through the steps that follow (runs, selections, expiries, saves of other
\* reviewers, saves of the caller for other submissions) until the caller
\* saves for the submission again.
C34_PendingEqualsStored ==
  \A s \in Sessions : \A ncode \in DOMAIN patches[s] :
    /\ StoreRows(store, ncode, login[s]) # {}
    /\ StoreRating(store, ncode, login[s]) = patches[s][ncode].rating
    /\ StoreComment(store, ncode, login[s]) = patches[s][ncode].comment

\* The session rated n1, another reviewer saved a rating of n1 after that,
\* and a cache entry ran out: the pending entry is still the stored record.
C34_KeptAfterOtherSave ==
  \E s \in Sessions :
    /\ prev[s].kind = "rate"
    /\ prev[s].ncode = "n1"
    /\ DOMAIN patches[s] = {"n1"}
    /\ writes = 2
    /\ expiries = 1
    /\ \E u \in LoginUsers \ {login[s]} : StoreRating(store, "n1", u) = R_NG
    /\ StoreRating(store, "n1", login[s]) = patches[s]["n1"].rating

\* ---------------------------------- claims on the rows of the two tables
\* The classification string of every row of df is the display mapping of
\* the flags the row holds.
ClassificationInSync(df) ==
  \A i \in DOMAIN df : df[i].classification = get_disp_status(df[i])

\* The base table memoized from an earlier state of the rating table, and
\* the pending writes applied to it with the table as it is now.
EarlierBase == BuildOf(EarlierTable, Caller)
ReconciledFrom(df) == apply_local_patches(df, Caller, PendingOfCaller, sub_df)

\* C35: in every row of the base table and of the reconciled table the
\* classification string is the display mapping of the row's current flags,
\* be the base a build from the table as it is or an aggregate memoized
\* earlier; the reconciled row a run computed carries the string of its
\* flags.
C35_ClassificationFollowsFlags ==
  /\ ClassificationInSync(BuildOf(sub_df, Caller))
  /\ ClassificationInSync(ReconciledNow)
  /\ ClassificationInSync(EarlierBase)
  /\ ClassificationInSync(ReconciledFrom(EarlierBase))
  /\ row_out.done => row_out.classification = get_disp_status(row_out.flags)

\* A reconciliation that changed the flags of the row of n1 and, with them,
\* its classification string from approved by the General group to NG.
C35_StringChangedWithFlags ==
  /\ row_out.done
  /\ RowOfNcode(BuildOf(sub_df, Caller), "n1").classification = DISP_GEN_POS
  /\ PendingOfCaller["n1"].rating = R_NG
  /\ row_out.flags.is_ng
  /\ row_out.classification = DISP_NG

\* The five flags next to is_unclassified.
StatusFlags == FlagNames \ {"is_unclassified"}

\* C36 as stated: in every row, is_unclassified is true if and only if none
\* of the five other flags is true, that is if and only if the classification
\* shown is '-'.  The row of the base table is the outcome of the build, the
\* row reconcile writes carries the outcome of determine_status.
C36_UnclassifiedIffNoFlag ==
  \A o \in Outcomes :
    /\ o.flags.is_unclassified <=> (\A k \in StatusFlags : ~o.flags[k])
    /\ o.flags.is_unclassified <=> o.classification = DISP_NONE


\* ================================================== the paged list
\* render_novel_list(df_in, key_suffix): one list of one session.  The table
\* enters by its length only; its rows are the positions 0..total_count-1.

\* The lengths the filtered table takes: around every multiple of 50, so that
\* for each page size there are tables that fill their last page, tables
\* that leave one row for it, and tables of less than one page.
MaxRowCount == 801
RowCounts == {n \in 0..MaxRowCount : n % 50 \in {0, 1}}

\* The options of the page size selectbox, and the size a session starts with.
PageSizes == {100, 300, 500}
DefaultPageSize == 300

TotalPages(count, PAGE_SIZE) ==
  (count \div PAGE_SIZE) + (IF count % PAGE_SIZE > 0 THEN 1 ELSE 0)

\* Mutant of ResetPage: a page past the last one is kept.
ResetPage_kept(p, total_pages) == p

\* if st.session_state[page_key] > total_pages: st.session_state[page_key] = 1
ResetPage(p, total_pages) == IF p > total_pages THEN 1 ELSE p

\* start_idx and end_idx of page p.
PageSlice(p, PAGE_SIZE) ==
  [start_idx |-> (p - 1) * PAGE_SIZE, end_idx |-> (p - 1) * PAGE_SIZE + PAGE_SIZE]

\* A bound of a slice over count positions, as Python reads it: a negative
\* bound counts from the end, and every bound is clipped to 0..count.
SliceBound(i, count) ==
  IF i < 0 THEN (IF i + count < 0 THEN 0 ELSE i + count)
  ELSE IF i > count THEN count ELSE i

\* Position i is in df_in.iloc[start_idx:end_idx].
InSlice(i, count, start_idx, end_idx) ==
  SliceBound(start_idx, count) <= i /\ i < SliceBound(end_idx, count)

\* What one call does with the two session keys and a table of count rows.
ViewOf(p, PAGE_SIZE, count, total_pages, slice) ==
  [current_page |-> << p >>, page_size |-> << PAGE_SIZE >>,
   drawn |-> [shown |-> TRUE, page |-> p, PAGE_SIZE |-> PAGE_SIZE,
             total_count |-> count, total_pages |-> total_pages,
             start_idx |-> slice.start_idx, end_idx |-> slice.end_idx,
             pager |-> total_pages > 1,
             prev_disabled |-> p <= 1, next_disabled |-> p >= total_pages]]

PageOfList(p, PAGE_SIZE, count, total_pages) ==
  ViewOf(ResetPage(p, total_pages), PAGE_SIZE, count, total_pages,
         PageSlice(ResetPage(p, total_pages), PAGE_SIZE))

render_novel_list(page_state, size_state, count) ==
  IF count = 0
  THEN [current_page |-> page_state, page_size |-> size_state, drawn |-> NoView]
  ELSE PageOfList(IF IsNull(page_state) THEN 1 ELSE Val(page_state),
                  IF IsNull(size_state) THEN DefaultPageSize ELSE Val(size_state),
                  count,
                  TotalPages(count, IF IsNull(size_state) THEN DefaultPageSize
                                    ELSE Val(size_state)))

ListFrame ==
  UNCHANGED << sub_df, row_out, batch_out, store, cache_user, cache_all, cache_proc,
               login, patches, sel, cur, comment_area, prev, writes, expiries,
               df_base, query, df_out, fault, cache_novel, pc, page, master,
               cache_master >>

\* The script runs and calls render_novel_list with a table of count rows.
ShowList(page_state, size_state, count) ==
  /\ current_page' = render_novel_list(page_state, size_state, count).current_page
  /\ page_size' = render_novel_list(page_state, size_state, count).page_size
  /\ total_count' = count
  /\ drawn' = render_novel_list(page_state, size_state, count).drawn
  /\ ListFrame

\* A rerun caused by anything but the pager: a filter, a save, another tab.
RerunList(count) == ShowList(current_page, page_size, count)

\* The buttons and the selectbox exist only when the last run drew them, and a
\* disabled button takes no click.  The callback runs, then the script.
next_page(count) ==
  /\ drawn.shown /\ drawn.pager /\ ~drawn.next_disabled
  /\ ShowList(<< Val(current_page) + 1 >>, page_size, count)

prev_page(count) ==
  /\ drawn.shown /\ drawn.pager /\ ~drawn.prev_disabled
  /\ ShowList(<< Val(current_page) - 1 >>, page_size, count)

on_size_change(size, count) ==
  /\ drawn.shown /\ drawn.pager
  /\ size # Val(page_size)
  /\ ShowList(<< 1 >>, << size >>, count)

InitList ==
  /\ sub_df = << >>
  /\ row_out = NotRun
  /\ batch_out = NotRun
  /\ InitSessionIdle
  /\ InitQueryIdle

NextList ==
  \/ \E count \in RowCounts : RerunList(count)
  \/ \E count \in RowCounts : next_page(count)
  \/ \E count \in RowCounts : prev_page(count)
  \/ \E size \in PageSizes, count \in RowCounts : on_size_change(size, count)

SpecList == InitList /\ [][NextList]_vars

\* The pages of a table on which position i is shown.
PagesShowing(i, count, PAGE_SIZE, total_pages) ==
  {p \in 1..total_pages :
     InSlice(i, count, PageSlice(p, PAGE_SIZE).start_idx, PageSlice(p, PAGE_SIZE).end_idx)}

\* C37: whenever a non-empty list is on the screen, whatever clicks on next
\* and previous, changes of the page size and changes of the number of rows
\* came before, the page drawn is the one in the session state and lies in
\* 1..total_pages, total_pages is the number of rows divided by the page size
\* and rounded up, the rows drawn are those of that page, and every row of the
\* table is on exactly one of the pages 1..total_pages.
C37_PageInRangeAndPartition ==
  drawn.shown =>
    /\ drawn.total_count = total_count /\ total_count > 0
    /\ drawn.PAGE_SIZE = Val(page_size) /\ drawn.PAGE_SIZE \in PageSizes
    /\ drawn.total_pages * drawn.PAGE_SIZE >= total_count
    /\ (drawn.total_pages - 1) * drawn.PAGE_SIZE < total_count
    /\ drawn.page = Val(current_page)
    /\ drawn.page \in 1..drawn.total_pages
    /\ drawn.start_idx = PageSlice(drawn.page, drawn.PAGE_SIZE).start_idx
    /\ drawn.end_idx = PageSlice(drawn.page, drawn.PAGE_SIZE).end_idx
    /\ \A i \in 0..(total_count - 1) :
         Cardinality(PagesShowing(i, total_count, drawn.PAGE_SIZE, drawn.total_pages)) = 1

\* Witness of C37: the last of several pages of 100 is on the screen and holds
\* the one row the full pages leave over, after the size was changed from the
\* default.
C37_LastPageOfSeveral ==
  /\ drawn.shown
  /\ drawn.PAGE_SIZE = 100
  /\ drawn.total_pages > 2
  /\ drawn.page = drawn.total_pages
  /\ total_count % 100 = 1
  /\ drawn.prev_disabled = FALSE /\ drawn.next_disabled

=============================================================================
